---- MODULE Spec2Model ----
(***************************************************************************)
(* Model of the Wanderer Rotator SDK: the device registry and its public   *)
(* calls (WandererRotatorSDK.cpp), the handshake, the status query and the *)
(* background move listener (WandererRotatorProtocol.cpp), and the serial  *)
(* line they share (WandererRotatorSerialPort.cpp).                        *)
(*                                                                         *)
(* Granularity: a foreground call runs under g_globalMutex and is split    *)
(* at its blocking points (usleep, the drained write, the timed read); a   *)
(* listener thread takes no lock and is split at the same points, so its   *)
(* steps interleave with the steps of foreground calls.                    *)
(*                                                                         *)
(* Angles are integers in milli-degrees; status.position, a float in       *)
(* degrees, is kept as whole degrees and thousandths.                      *)
(***************************************************************************)
EXTENDS Integers, Sequences, FiniteSets, TLC

(* ------------------------------ bounds ------------------------------- *)

\* serial ports the host enumerates
NumPorts == 1
\* handles a caller may pass: 0 .. MaxId
MaxId == 1
\* Device objects alive at once (registered, or still held by a listener)
MaxObj == 1
\* listener threads alive at once
MaxTasks == 2
\* caller threads
NumThreads == 2
\* complete frames the line buffers before the device waits
MaxRx == 1

(* ------------------------- program constants ------------------------- *)

\* QueryHandshake: while (retries++ < 5)
HandshakeRetries == 5
\* char response[32] / char buffer[32]: Read(..., 32, 'A', ...)
ReadBufLen == 32
\* sscanf "%7[^A]": at most 7 characters of model name
ModelFieldLen == 7
\* relative move command base
MoveBase == 1000000
\* WRRotatorMove: char cmd[8]; MoveListenerThreadFunc: char cmd[16]
MoveCmdLen == 8
ReturnCmdLen == 16
\* set-backlash command base
BacklashBase == 1600000
\* steps per degree by model
StepsMini == 1142
StepsLiteV2 == 1199
StepsLite == 1155
\* overshoot return angle, milli-degrees (Device.overshootAngle)
OvershootAngle == 2000
\* WR_MAX_NUM
MaxNum == 32
\* half and full turn, milli-degrees
HalfTurn == 180000
FullTurn == 360000

Ports == 1..NumPorts
Ids == 0..MaxId
Obj == 1..MaxObj
Tasks == 1..MaxTasks
Threads == 1..NumThreads
NoDev == 0
NoThread == 0

(* ------------------------------ frames ------------------------------- *)

Tag == <<"W","a","n","d","e","r","e","r","R","o","t","a","t","o","r">>
ModelFrame == Tag \o <<"L","i","t","e","A">>
AngleFrame == <<"9","0","5","0","0","A">>
\* what the device may put on the line: the model frame is malformed where
\* a number is expected, the angle frame where the model is
DeviceFrames == {ModelFrame, AngleFrame}
\* the model frame of an instrument that is neither a Mini nor a Lite
OtherModelFrame == Tag \o <<"P","r","o","A">>
\* the first byte of a frame whose rest, with the terminating 'A', does
\* not arrive before the read's timeout
CutFrame == <<"0">>
\* the model frames of a Mini and of a Lite V2
MiniFrame == Tag \o <<"M","i","n","i","A">>
LiteV2Frame == Tag \o <<"L","i","t","e"," ","V","2","A">>
ModelFrames == {OtherModelFrame, MiniFrame, LiteV2Frame}

\* angles a caller passes to WRRotatorMove, milli-degrees
MoveAngles == {45000}
\* angles a caller passes to WRRotatorMoveTo, milli-degrees
MoveToAngles == {-500, 90500, 360000}
\* angles a caller passes to WRRotatorSyncPosition
SyncAngles == {0, 90500}
\* WR_ROTATOR_CONFIG values a caller passes to WRRotatorSetConfig
ConfigMasks == {1, 2, 3, 4, 12}
ConfigReverse == {1}
ConfigBacklash == {-1000, 2500}

Min(a, b) == IF a < b THEN a ELSE b

\* C integer division: truncation toward zero
TruncDiv(x, d) == IF x >= 0 THEN x \div d ELSE -((-x) \div d)

DigitVal(c) ==
    CASE c = "0" -> 0 [] c = "1" -> 1 [] c = "2" -> 2 [] c = "3" -> 3
      [] c = "4" -> 4 [] c = "5" -> 5 [] c = "6" -> 6 [] c = "7" -> 7
      [] c = "8" -> 8 [] c = "9" -> 9 [] OTHER -> -1

IsDigit(c) == DigitVal(c) >= 0

\* number of leading digits of s from position i
RECURSIVE DigitRun(_, _)
DigitRun(s, i) ==
    IF i <= Len(s) /\ IsDigit(s[i]) THEN 1 + DigitRun(s, i + 1) ELSE 0

\* value of the n digits of s from position i
RECURSIVE DigitsValue(_, _, _)
DigitsValue(s, i, n) ==
    IF n = 0 THEN 0
    ELSE DigitsValue(s, i, n - 1) * 10 + DigitVal(s[i + n - 1])

\* sscanf(s, "%dA", &v): optional sign, then at least one digit
ScanInt(s) ==
    LET neg == Len(s) >= 1 /\ s[1] = "-"
        st == IF Len(s) >= 1 /\ (s[1] = "-" \/ s[1] = "+") THEN 2 ELSE 1
        n == DigitRun(s, st)
    IN  IF n = 0 THEN [ok |-> FALSE, val |-> 0]
        ELSE [ok |-> TRUE,
              val |-> IF neg THEN -DigitsValue(s, st, n) ELSE DigitsValue(s, st, n)]

\* sscanf(s, "%fA", &f): sign, digits, optional point and digits; the value
\* is returned in thousandths (three decimals kept)
ScanFloat(s) ==
    LET neg == Len(s) >= 1 /\ s[1] = "-"
        st == IF Len(s) >= 1 /\ (s[1] = "-" \/ s[1] = "+") THEN 2 ELSE 1
        n == DigitRun(s, st)
        pt == st + n
        hasPt == pt <= Len(s) /\ s[pt] = "."
        m == IF hasPt THEN DigitRun(s, pt + 1) ELSE 0
        k == Min(m, 3)
        frac == DigitsValue(s, pt + 1, k) * (CASE k = 0 -> 1000 [] k = 1 -> 100
                                               [] k = 2 -> 10 [] OTHER -> 1)
        mag == DigitsValue(s, st, n) * 1000 + (IF k = 0 THEN 0 ELSE frac)
    IN  IF n = 0 /\ m = 0 THEN [ok |-> FALSE, val |-> 0]
        ELSE [ok |-> TRUE, val |-> IF neg THEN -mag ELSE mag]

\* s has t as a prefix starting at position i
HasAt(s, t, i) ==
    /\ i + Len(t) - 1 <= Len(s)
    /\ \A j \in 1..Len(t) : s[i + j - 1] = t[j]

\* strstr(s, t) != NULL, std::string::find(t) != npos
Contains(s, t) == \E i \in 1..(Len(s) + 1) : HasAt(s, t, i)

\* number of leading characters of s from position i that are not 'A'
RECURSIVE NotARun(_, _)
NotARun(s, i) ==
    IF i <= Len(s) /\ s[i] # "A" THEN 1 + NotARun(s, i + 1) ELSE 0

\* sscanf(s, "WandererRotator%7[^A]A", model)
ScanModel(s) ==
    LET n == IF HasAt(s, Tag, 1) THEN Min(NotARun(s, Len(Tag) + 1), ModelFieldLen)
             ELSE 0
    IN  IF n = 0 THEN [ok |-> FALSE, val |-> <<>>]
        ELSE [ok |-> TRUE, val |-> SubSeq(s, Len(Tag) + 1, Len(Tag) + n)]

\* position of the first 'A' among the first n bytes of s, 0 if none
FirstStop(s, n) ==
    IF \E i \in 1..n : s[i] = "A"
    THEN CHOOSE i \in 1..n : s[i] = "A" /\ \A j \in 1..(i - 1) : s[j] # "A"
    ELSE 0

\* a faulty SerialRead: the read takes what has arrived, past the stop byte
SerialReadGreedy(s, maxlen) ==
    LET n == Min(Len(s), maxlen - 1)
    IN  [data |-> SubSeq(s, 1, n), rest |-> SubSeq(s, n + 1, Len(s))]

\* SerialPort::Read(buf, maxlen, 'A', timeoutMs) on a line holding s: the
\* bytes up to and including the first 'A'; without one, the maxlen-1 bytes
\* that fill the buffer, or at the timeout whatever has arrived.
SerialRead(s, maxlen) ==
    LET n == Min(Len(s), maxlen - 1)
        stop == FirstStop(s, n)
        take == IF stop > 0 THEN stop ELSE n
    IN  [data |-> SubSeq(s, 1, take), rest |-> SubSeq(s, take + 1, Len(s))]

\* complete frames waiting on a line
FramesIn(s) == Cardinality({i \in 1..Len(s) : s[i] = "A"})

\* mechanicalAngle / 1000.0f
Degrees(m) == [whole |-> TruncDiv(m, 1000), frac |-> m - 1000 * TruncDiv(m, 1000)]

\* 1000000 + (int)(angle * stepsPerDegree), the product taken by whole
\* degrees and thousandths
MoveCommand(angle, stepsPerDegree) ==
    LET whole == TruncDiv(angle, 1000)
        frac == angle - 1000 * whole
    IN  MoveBase + whole * stepsPerDegree + TruncDiv(frac * stepsPerDegree, 1000)

\* number of decimal digits of n >= 0
RECURSIVE NumDigits(_)
NumDigits(n) == IF n < 10 THEN 1 ELSE 1 + NumDigits(n \div 10)

\* n >= 0 without its last k digits
RECURSIVE DropDigits(_, _)
DropDigits(n, k) == IF k <= 0 THEN n ELSE DropDigits(n \div 10, k - 1)

\* snprintf(cmd, size, "%d", n): the number the first size - 1 characters
\* of n spell
Snprintf(n, size) ==
    IF n >= 0 THEN DropDigits(n, NumDigits(n) - (size - 1))
    ELSE -DropDigits(-n, NumDigits(-n) + 1 - (size - 1))

\* BacklashToCommand: (int)(backlash * 10.0f) + 1600000
BacklashToCommand(backlash) == TruncDiv(backlash, 100) + BacklashBase

\* ReverseDirectionToCommand
ReverseDirectionToCommand(reverse) == IF reverse # 0 THEN "1700001\n" ELSE "1700000\n"

\* commands on the wire: a literal, or a formatted number
Literal(t) == [text |-> t, num |-> 0]
Number(fmt, n) == [text |-> fmt, num |-> n]
NoCommand == Literal("")
Probe == Literal("1500001\n")

(* ------------------------------- state ------------------------------- *)

VARIABLES
    reg,    \* g_devices: handle -> Device object, NoDev where absent
    dev,    \* the Device objects
    task,   \* the listener threads (MoveListenerThreadFunc) alive, newest first
    th,     \* the caller threads and the public call each is in
    lock,   \* g_globalMutex: the thread holding it, or NoThread
    rx      \* per port: bytes received and not yet read

vars == <<reg, dev, task, th, lock, rx>>

\* a Device as make_shared<Device>() leaves it; alloc tells a live object
NewDevice(p, isOpen) ==
    [alloc |-> TRUE, portName |-> p, open |-> isOpen, modelType |-> <<>>,
     firmwareVersion |-> 0, mechanicalAngle |-> 0, backlash |-> 0,
     reverseDirection |-> 0, stepsPerDegree |-> 0, targetAngle |-> 0,
     rotatorReverse |-> 0, position |-> Degrees(0), moving |-> FALSE,
     stepsPerRevolution |-> 0, overshooting |-> 0, listenerRunning |-> FALSE]

FreeDevice == [NewDevice(1, FALSE) EXCEPT !.alloc = FALSE]

\* a listener thread as StartMoveListener starts it on Device o: where it
\* is, the Device it holds, whether a later listener superseded it, the
\* return command it formatted and the command it wrote
NewTask(o) == [pc |-> "start", dev |-> o, old |-> FALSE, cmd |-> 0, wrote |-> NoCommand]

\* a caller thread: the call it is in with its arguments and locals, the
\* command the call last wrote, and at pc "ret" its return value
IdleThread ==
    [op |-> "none", id |-> 0, pc |-> "idle", k |-> 0, arg |-> 0,
     code |-> "none", p |-> 0, count |-> 0, dev |-> NoDev, mask |-> 0,
     rev |-> 0, bl |-> 0, out |-> <<>>, wrote |-> NoCommand]

Init ==
    /\ reg = [i \in Ids |-> NoDev]
    /\ dev = [o \in Obj |-> FreeDevice]
    /\ task = <<>>
    /\ th = [c \in Threads |-> IdleThread]
    /\ lock = NoThread
    /\ rx = [p \in Ports |-> <<>>]

(* --------------------------- object lifetime -------------------------- *)

\* a Device is kept alive by the registry, by a listener's shared_ptr and by
\* the shared_ptr of a call in progress
Referenced(o, r, tk, h) ==
    \/ \E i \in Ids : r[i] = o
    \/ \E t \in DOMAIN tk : tk[t].dev = o
    \/ \E c \in Threads : h[c].dev = o

\* ~Device(): objects no shared_ptr refers to are destroyed
SweepDev(d, r, tk, h) ==
    [o \in Obj |-> IF d[o].alloc /\ Referenced(o, r, tk, h) THEN d[o] ELSE FreeDevice]

FreeObjs == {o \in Obj : ~dev[o].alloc}
Lowest(S) == CHOOSE x \in S : \A y \in S : x <= y

(* ------------------------------ the device --------------------------- *)

\* the instrument puts a frame on the line
DeviceEmit(p, f) ==
    /\ FramesIn(rx[p]) < MaxRx
    /\ rx' = [rx EXCEPT ![p] = @ \o f]
    /\ UNCHANGED <<reg, dev, task, th, lock>>

\* the instrument starts a frame on an idle line and falls silent
DeviceEmitCut(p) ==
    /\ rx[p] = <<>>
    /\ rx' = [rx EXCEPT ![p] = CutFrame]
    /\ UNCHANGED <<reg, dev, task, th, lock>>

(* ------------------------- the move listener -------------------------- *)

\* a StartMoveListener that cancels the listeners of the device still
\* running
SpawnedAlone(tk, o) ==
    <<NewTask(o)>> \o SelectSeq(tk, LAMBDA x : x.dev # o)

\* StartMoveListener(device) run by a thread: std::thread(...).detach();
\* the listeners of the device still running are superseded
Spawned(tk, o) ==
    <<NewTask(o)>> \o [t \in DOMAIN tk |->
                         IF tk[t].dev = o THEN [tk[t] EXCEPT !.old = TRUE] ELSE tk[t]]

\* the listener threads without thread t
Without(tk, t) == SubSeq(tk, 1, t - 1) \o SubSeq(tk, t + 1, Len(tk))

\* listener thread t is at pc
Running(t, pc) == t \in DOMAIN task /\ task[t].pc = pc

\* a listener thread returns and drops its shared_ptr; d is the Device
\* array as its last statements leave it
Exited(t, d) ==
    LET tk == Without(task, t)
    IN  /\ task' = tk
        /\ dev' = SweepDev(d, reg, tk, th)

\* MoveListenerThreadFunc, entry: the port check
ListenerStart(t) ==
    LET o == task[t].dev IN
    /\ Running(t, "start")
    /\ IF dev[o].open
       THEN /\ task' = [task EXCEPT ![t].pc = "read1"]
            /\ dev' = dev
       ELSE Exited(t, [dev EXCEPT ![o].listenerRunning = FALSE])
    /\ UNCHANGED <<reg, th, lock, rx>>

\* what a thread's Read on the Device's port returns; a closed descriptor
\* yields nothing and leaves the line alone
PortRead(o) ==
    IF dev[o].open THEN SerialRead(rx[dev[o].portName], ReadBufLen)
    ELSE [data |-> <<>>, rest |-> rx[dev[o].portName]]

\* a faulty ListenerReadRotated: a failed read also settles the move
ListenerReadRotatedSettles(t) ==
    LET o == task[t].dev
        r == PortRead(o)
    IN  /\ Running(t, "read1")
        /\ rx' = [rx EXCEPT ![dev[o].portName] = r.rest]
        /\ IF Len(r.data) > 0 /\ ScanFloat(r.data).ok
           THEN /\ task' = [task EXCEPT ![t].pc = "read2"]
                /\ dev' = dev
           ELSE Exited(t, [dev EXCEPT ![o].listenerRunning = FALSE,
                                      ![o].moving = FALSE])
        /\ UNCHANGED <<reg, th, lock>>

\* the angle-rotated frame: Read(buffer, 32, 'A', 90000), sscanf "%fA"
ListenerReadRotated(t) ==
    LET o == task[t].dev
        r == PortRead(o)
    IN  /\ Running(t, "read1")
        /\ rx' = [rx EXCEPT ![dev[o].portName] = r.rest]
        /\ IF Len(r.data) > 0 /\ ScanFloat(r.data).ok
           THEN /\ task' = [task EXCEPT ![t].pc = "read2"]
                /\ dev' = dev
           ELSE Exited(t, [dev EXCEPT ![o].listenerRunning = FALSE])
        /\ UNCHANGED <<reg, th, lock>>

\* a faulty ListenerReadPosition: status.position is not refreshed
ListenerReadPositionStale(t) ==
    LET o == task[t].dev
        r == PortRead(o)
        v == ScanInt(r.data)
    IN  /\ Running(t, "read2")
        /\ rx' = [rx EXCEPT ![dev[o].portName] = r.rest]
        /\ IF Len(r.data) > 0 /\ v.ok
           THEN /\ task' = [task EXCEPT ![t].pc = "phase"]
                /\ dev' = [dev EXCEPT ![o].mechanicalAngle = v.val]
           ELSE Exited(t, [dev EXCEPT ![o].listenerRunning = FALSE])
        /\ UNCHANGED <<reg, th, lock>>

\* the new-position frame: Read(buffer, 32, 'A', 3000), sscanf "%dA", then
\* status.position
ListenerReadPosition(t) ==
    LET o == task[t].dev
        r == PortRead(o)
        v == ScanInt(r.data)
    IN  /\ Running(t, "read2")
        /\ rx' = [rx EXCEPT ![dev[o].portName] = r.rest]
        /\ IF Len(r.data) > 0 /\ v.ok
           THEN /\ task' = [task EXCEPT ![t].pc = "phase"]
                /\ dev' = [dev EXCEPT ![o].mechanicalAngle = v.val,
                                      ![o].position = Degrees(v.val)]
           ELSE Exited(t, [dev EXCEPT ![o].listenerRunning = FALSE])
        /\ UNCHANGED <<reg, th, lock>>

\* a faulty ListenerPhase: moving is cleared when the outbound move ends
ListenerPhaseClearsEarly(t) ==
    LET o == task[t].dev IN
    /\ Running(t, "phase")
    /\ IF dev[o].overshooting = 1
       THEN /\ dev' = [dev EXCEPT ![o].overshooting = 2, ![o].moving = FALSE]
            /\ task' = [task EXCEPT ![t].pc = "ret_flush"]
       ELSE Exited(t, [dev EXCEPT ![o].overshooting = 0,
                                  ![o].moving = FALSE,
                                  ![o].listenerRunning = FALSE])
    /\ UNCHANGED <<reg, th, lock, rx>>

\* a faulty ListenerPhase: the completion of the return move starts another
\* return move
ListenerPhaseReturnsAgain(t) ==
    LET o == task[t].dev IN
    /\ Running(t, "phase")
    /\ IF dev[o].overshooting \in {1, 2}
       THEN /\ dev' = [dev EXCEPT ![o].overshooting = 2]
            /\ task' = [task EXCEPT ![t].pc = "ret_flush"]
       ELSE Exited(t, [dev EXCEPT ![o].overshooting = 0,
                                  ![o].moving = FALSE,
                                  ![o].listenerRunning = FALSE])
    /\ UNCHANGED <<reg, th, lock, rx>>

\* the overshoot state machine after a completed move
ListenerPhase(t) ==
    LET o == task[t].dev IN
    /\ Running(t, "phase")
    /\ IF dev[o].overshooting = 1
       THEN /\ dev' = [dev EXCEPT ![o].overshooting = 2]
            /\ task' = [task EXCEPT ![t].pc = "ret_flush"]
       ELSE Exited(t, [dev EXCEPT ![o].overshooting = 0,
                                  ![o].moving = FALSE,
                                  ![o].listenerRunning = FALSE])
    /\ UNCHANGED <<reg, th, lock, rx>>

\* the return move is abandoned: SendCommand returned false
ReturnFailed(t, o) ==
    Exited(t, [dev EXCEPT ![o].overshooting = 0,
                          ![o].moving = FALSE,
                          ![o].listenerRunning = FALSE])

\* a faulty ListenerReturnFlush: the return move goes on in the direction
\* of the target
ListenerReturnFlushOnward(t) ==
    LET o == task[t].dev
        returnAngle == IF dev[o].targetAngle > 0 THEN OvershootAngle ELSE -OvershootAngle
    IN  /\ Running(t, "ret_flush")
        /\ IF dev[o].open
           THEN /\ rx' = [rx EXCEPT ![dev[o].portName] = <<>>]
                /\ task' = [task EXCEPT ![t].pc = "ret_write",
                                        ![t].cmd = Snprintf(MoveCommand(returnAngle, dev[o].stepsPerDegree),
                                                            ReturnCmdLen)]
                /\ dev' = dev
           ELSE /\ rx' = rx
                /\ ReturnFailed(t, o)
        /\ UNCHANGED <<reg, th, lock>>

\* after usleep(100000): the return command is formatted, the input is
\* flushed and SendCommand checks the port
ListenerReturnFlush(t) ==
    LET o == task[t].dev
        returnAngle == IF dev[o].targetAngle > 0 THEN -OvershootAngle ELSE OvershootAngle
    IN  /\ Running(t, "ret_flush")
        /\ IF dev[o].open
           THEN /\ rx' = [rx EXCEPT ![dev[o].portName] = <<>>]
                /\ task' = [task EXCEPT ![t].pc = "ret_write",
                                        ![t].cmd = Snprintf(MoveCommand(returnAngle, dev[o].stepsPerDegree),
                                                            ReturnCmdLen)]
                /\ dev' = dev
           ELSE /\ rx' = rx
                /\ ReturnFailed(t, o)
        /\ UNCHANGED <<reg, th, lock>>

\* SendCommand after its usleep(100000): the write; on success moving is
\* set again and StartMoveListener clears listenerRunning
ListenerReturnWrite(t, written) ==
    LET o == task[t].dev IN
    /\ Running(t, "ret_write")
    /\ IF dev[o].open /\ written
       THEN /\ dev' = [dev EXCEPT ![o].moving = TRUE, ![o].listenerRunning = FALSE]
            /\ task' = [task EXCEPT ![t].pc = "ret_spawn", ![t].cmd = 0,
                                    ![t].wrote = Number("%d", task[t].cmd)]
       ELSE ReturnFailed(t, o)
    /\ UNCHANGED <<reg, th, lock, rx>>

\* StartMoveListener after its usleep(50000): the new listener thread; the
\* thread that started it returns
ListenerReturnSpawn(t) ==
    LET o == task[t].dev IN
    /\ Running(t, "ret_spawn")
    /\ dev' = [dev EXCEPT ![o].listenerRunning = TRUE]
    /\ task' = Spawned(Without(task, t), o)
    /\ UNCHANGED <<reg, th, lock, rx>>

(* ------------------------- foreground calls --------------------------- *)

Bit(mask, b) == (mask \div b) % 2 = 1

\* a faulty StepsFor: every Lite is taken for the first version
StepsForAnyLite(model, old) ==
    IF Contains(model, <<"M","i","n","i">>) THEN StepsMini
    ELSE IF Contains(model, <<"L","i","t","e">>) THEN StepsLite
         ELSE old

\* steps per degree from the model name; other names keep the old value
StepsFor(model, old) ==
    IF Contains(model, <<"M","i","n","i">>) THEN StepsMini
    ELSE IF Contains(model, <<"L","i","t","e">>)
         THEN IF Contains(model, <<"V","2">>) THEN StepsLiteV2 ELSE StepsLite
         ELSE old

\* the thread takes g_globalMutex (std::lock_guard)
CanLock(c) == th[c].pc \in {"idle", "mt_gap"} /\ lock = NoThread

\* the call of thread c computes its return value
Ret(h, c, code, out) ==
    [h EXCEPT ![c] = [IdleThread EXCEPT !.op = h[c].op, !.id = h[c].id,
                                        !.pc = "ret", !.code = code, !.out = out,
                                        !.wrote = h[c].wrote]]

\* the call goes on at pc
At(h, c, pc) == [h EXCEPT ![c].pc = pc]

\* the call has written cmd to its port (SerialPort::Write returned true)
Wrote(h, c, cmd) == [h EXCEPT ![c].wrote = cmd]

\* a call enters: op and arguments
Enter(c, op, id) == [th EXCEPT ![c] = [IdleThread EXCEPT !.op = op, !.id = id, !.pc = "run"]]

\* g_devices.find(id) != g_devices.end()
Registered(id) == reg[id] # NoDev

\* the call returns to its caller and the lock_guard releases the mutex
Return(c) ==
    /\ th[c].pc = "ret"
    /\ th' = [th EXCEPT ![c] = IdleThread]
    /\ lock' = IF lock = c THEN NoThread ELSE lock
    /\ UNCHANGED <<reg, dev, task, rx>>

\* a public call rejects a null output pointer before taking the lock
NullPointer(c, op, id) ==
    /\ op \in {"Scan", "GetConfig", "SetConfig", "GetStatus", "GetVersion"}
    /\ th[c].pc = "idle"
    /\ th' = Ret(Enter(c, op, id), c, "WR_ERROR_NULL_POINTER", <<>>)
    /\ UNCHANGED <<reg, dev, task, lock, rx>>

\* the public calls that take a handle
LifecycleOps == {"Open", "Close"}
ConfigOps == {"GetConfig", "SetConfig", "GetVersion"}
MotionOps == {"GetStatus", "SyncPosition", "FindHome", "Move", "MoveTo", "Stop"}
HandleOps == LifecycleOps \cup ConfigOps \cup MotionOps

\* a faulty InvalidId: the missing handle goes unnoticed
InvalidIdAccepted(c, op, id) ==
    /\ op \in HandleOps
    /\ CanLock(c) /\ th[c].pc = "idle"
    /\ ~Registered(id)
    /\ lock' = c
    /\ th' = Ret(Enter(c, op, id), c, "WR_SUCCESS", <<>>)
    /\ UNCHANGED <<reg, dev, task, rx>>

\* a public call finds no Device under the handle
InvalidId(c, op, id) ==
    /\ op \in HandleOps
    /\ CanLock(c) /\ th[c].pc = "idle"
    /\ ~Registered(id)
    /\ lock' = c
    /\ th' = Ret(Enter(c, op, id), c, "WR_ERROR_INVALID_ID", <<>>)
    /\ UNCHANGED <<reg, dev, task, rx>>

\* WRRotatorGetStatus
WRRotatorGetStatus(c, id) ==
    LET d == dev[reg[id]] IN
    /\ CanLock(c) /\ th[c].pc = "idle"
    /\ Registered(id)
    /\ lock' = c
    /\ th' = Ret(Enter(c, "GetStatus", id), c, "WR_SUCCESS",
                 <<d.position, d.moving, d.stepsPerRevolution>>)
    /\ UNCHANGED <<reg, dev, task, rx>>

\* WRRotatorGetConfig: the backlash is reported in tenths of a degree
WRRotatorGetConfig(c, id) ==
    LET d == dev[reg[id]] IN
    /\ CanLock(c) /\ th[c].pc = "idle"
    /\ Registered(id)
    /\ lock' = c
    /\ th' = Ret(Enter(c, "GetConfig", id), c, "WR_SUCCESS",
                 <<d.rotatorReverse, d.backlash>>)
    /\ UNCHANGED <<reg, dev, task, rx>>

\* WRRotatorGetVersion: strncpy of at most sizeof(model) - 1 characters
WRRotatorGetVersion(c, id) ==
    LET d == dev[reg[id]] IN
    /\ CanLock(c) /\ th[c].pc = "idle"
    /\ Registered(id)
    /\ lock' = c
    /\ th' = Ret(Enter(c, "GetVersion", id), c, "WR_SUCCESS",
                 <<d.firmwareVersion, SubSeq(d.modelType, 1, Min(Len(d.modelType), ModelFieldLen))>>)
    /\ UNCHANGED <<reg, dev, task, rx>>

\* a faulty WRRotatorClose: no lock_guard
WRRotatorCloseUnlocked(c, id) ==
    LET o == reg[id] IN
    /\ th[c].pc = "idle"
    /\ Registered(id)
    /\ lock' = lock
    /\ dev' = [dev EXCEPT ![o].listenerRunning = FALSE, ![o].open = FALSE]
    /\ th' = Ret(Enter(c, "Close", id), c, "WR_SUCCESS", <<>>)
    /\ UNCHANGED <<reg, task, rx>>

\* a WRRotatorClose that erases the handle: g_devices.erase(it)
WRRotatorCloseErases(c, id) ==
    LET o == reg[id]
        r == [reg EXCEPT ![id] = NoDev]
        h == Ret(Enter(c, "Close", id), c, "WR_SUCCESS", <<>>)
    IN  /\ CanLock(c) /\ th[c].pc = "idle"
        /\ Registered(id)
        /\ lock' = c
        /\ reg' = r
        /\ dev' = SweepDev([dev EXCEPT ![o].listenerRunning = FALSE, ![o].open = FALSE],
                           r, task, h)
        /\ th' = h
        /\ UNCHANGED <<task, rx>>

\* WRRotatorClose: StopMoveListener, then port->Close()
WRRotatorClose(c, id) ==
    LET o == reg[id] IN
    /\ CanLock(c) /\ th[c].pc = "idle"
    /\ Registered(id)
    /\ lock' = c
    /\ dev' = [dev EXCEPT ![o].listenerRunning = FALSE, ![o].open = FALSE]
    /\ th' = Ret(Enter(c, "Close", id), c, "WR_SUCCESS", <<>>)
    /\ UNCHANGED <<reg, task, rx>>

(* scan and open, with the handshake and the status query they run on
   th[c].dev; a routine that returns hands over to its caller in the same
   step: h is th and d is dev as the routine leaves them *)

\* a faulty ScanRegister: the port is left open
ScanRegisterKeepsOpen(c, h) ==
    LET o == h[c].dev
        h2 == [h EXCEPT ![c].pc = "scan_port", ![c].p = @ + 1,
                        ![c].count = @ + 1, ![c].dev = NoDev]
        r == [reg EXCEPT ![h[c].count] = o]
    IN  /\ h[c].count \in Ids
        /\ th' = h2
        /\ reg' = r
        /\ dev' = SweepDev(dev, r, task, h2)

\* WRRotatorScan: the handshake succeeded; the port is closed and the
\* Device registered under the next id
ScanRegister(c, h) ==
    LET o == h[c].dev
        h2 == [h EXCEPT ![c].pc = "scan_port", ![c].p = @ + 1,
                        ![c].count = @ + 1, ![c].dev = NoDev]
        r == [reg EXCEPT ![h[c].count] = o]
    IN  /\ h[c].count \in Ids
        /\ th' = h2
        /\ reg' = r
        /\ dev' = SweepDev([dev EXCEPT ![o].open = FALSE], r, task, h2)

\* WRRotatorScan: no handshake; the port is closed and the Device dropped
ScanReject(c, h) ==
    LET h2 == [h EXCEPT ![c].pc = "scan_port", ![c].p = @ + 1, ![c].dev = NoDev]
    IN  /\ th' = h2
        /\ reg' = reg
        /\ dev' = SweepDev(dev, reg, task, h2)

\* WRRotatorOpen: the handshake succeeded, QueryStatus follows
OpenHandshaken(c, h) ==
    /\ th' = At(h, c, "qs_write")
    /\ UNCHANGED <<reg, dev>>

\* a faulty OpenFailed: the port is left open
OpenFailedLeavesOpen(c, h, d) ==
    /\ dev' = d
    /\ th' = Ret(h, c, "WR_ERROR_COMMUNICATION", <<>>)

\* WRRotatorOpen: handshake or status query failed; the port is closed
OpenFailed(c, h, d) ==
    /\ dev' = [d EXCEPT ![h[c].dev].open = FALSE]
    /\ th' = Ret(h, c, "WR_ERROR_COMMUNICATION", <<>>)

\* QueryHandshake returns ok to WRRotatorScan or WRRotatorOpen
HandshakeReturns(c, h, ok) ==
    IF h[c].op = "Scan"
    THEN IF ok THEN ScanRegister(c, h) ELSE ScanReject(c, h)
    ELSE IF ok THEN OpenHandshaken(c, h)
         ELSE OpenFailed(c, h, dev) /\ reg' = reg

\* QueryHandshake, one attempt: tcflush(TCIOFLUSH) and the probe
HandshakeWrite(c, written) ==
    LET o == th[c].dev
        p == dev[o].portName
    IN  /\ lock = c /\ th[c].pc = "hs_write"
        /\ rx' = [rx EXCEPT ![p] = <<>>]
        /\ IF written
           THEN /\ th' = At(Wrote(th, c, Probe), c, "hs_read")
                /\ UNCHANGED <<reg, dev>>
           ELSE HandshakeReturns(c, th, FALSE)
        /\ UNCHANGED <<task, lock>>

\* a faulty HandshakeRead: one attempt too many
HandshakeReadExtraRetry(c) ==
    LET o == th[c].dev
        p == dev[o].portName
        r == SerialRead(rx[p], ReadBufLen)
    IN  /\ lock = c /\ th[c].pc = "hs_read"
        /\ rx' = [rx EXCEPT ![p] = r.rest]
        /\ IF Len(r.data) > 0 /\ Contains(r.data, Tag)
           THEN HandshakeReturns(c, th, TRUE)
           ELSE IF th[c].k < HandshakeRetries + 1
                THEN /\ th' = [th EXCEPT ![c].pc = "hs_write", ![c].k = @ + 1]
                     /\ UNCHANGED <<reg, dev>>
                ELSE HandshakeReturns(c, th, FALSE)
        /\ UNCHANGED <<task, lock>>

\* QueryHandshake, one attempt: Read(response, 32, 'A', 3000) and strstr
HandshakeRead(c) ==
    LET o == th[c].dev
        p == dev[o].portName
        r == SerialRead(rx[p], ReadBufLen)
    IN  /\ lock = c /\ th[c].pc = "hs_read"
        /\ rx' = [rx EXCEPT ![p] = r.rest]
        /\ IF Len(r.data) > 0 /\ Contains(r.data, Tag)
           THEN HandshakeReturns(c, th, TRUE)
           ELSE IF th[c].k < HandshakeRetries
                THEN /\ th' = [th EXCEPT ![c].pc = "hs_write", ![c].k = @ + 1]
                     /\ UNCHANGED <<reg, dev>>
                ELSE HandshakeReturns(c, th, FALSE)
        /\ UNCHANGED <<task, lock>>

\* WRRotatorOpen: the status query returned
OpenDone(c, d, ok) ==
    /\ IF ok
       THEN /\ dev' = d
            /\ th' = Ret(th, c, "WR_SUCCESS", <<>>)
       ELSE OpenFailed(c, th, d)
    /\ lock' = lock

\* C fmodf: the remainder has the sign of the dividend
Fmod(x, m) == x - m * TruncDiv(x, m)

\* a faulty ShortestDelta: no wrap-around
ShortestDeltaUnwrapped(angle, current) == angle - current

\* WRRotatorMoveTo: the shortest signed path from current to angle
ShortestDelta(angle, current) ==
    LET d == Fmod((angle - current) + HalfTurn, FullTurn)
    IN  IF d < 0 THEN d + HalfTurn ELSE d - HalfTurn

\* a faulty MoveToDelta: a zero delta is moved like any other
MoveToDeltaAlwaysMoves(c, d, ok) ==
    LET delta == ShortestDelta(th[c].arg, d[th[c].dev].mechanicalAngle) IN
    /\ dev' = d
    /\ IF ~ok
       THEN /\ th' = Ret(th, c, "WR_ERROR_COMMUNICATION", <<>>)
            /\ lock' = lock
       ELSE /\ th' = [th EXCEPT ![c].pc = "mt_gap", ![c].arg = delta, ![c].dev = NoDev]
            /\ lock' = NoThread

\* WRRotatorMoveTo: the status query returned; on success the delta: a zero
\* delta returns, otherwise the locked block ends and
\* WRRotatorMove(id, delta) is about to be called
MoveToDelta(c, d, ok) ==
    LET delta == ShortestDelta(th[c].arg, d[th[c].dev].mechanicalAngle) IN
    /\ dev' = d
    /\ IF ~ok
       THEN /\ th' = Ret(th, c, "WR_ERROR_COMMUNICATION", <<>>)
            /\ lock' = lock
       ELSE IF delta = 0
            THEN /\ th' = Ret(th, c, "WR_SUCCESS", <<>>)
                 /\ lock' = lock
            ELSE /\ th' = [th EXCEPT ![c].pc = "mt_gap", ![c].arg = delta, ![c].dev = NoDev]
                 /\ lock' = NoThread

\* QueryStatus returns ok to WRRotatorOpen or WRRotatorMoveTo
StatusReturns(c, d, ok) ==
    IF th[c].op = "Open" THEN OpenDone(c, d, ok) ELSE MoveToDelta(c, d, ok)

\* QueryStatus: tcflush(TCIOFLUSH) and the probe
StatusWrite(c, written) ==
    LET o == th[c].dev
        p == dev[o].portName
    IN  /\ lock = c /\ th[c].pc = "qs_write"
        /\ rx' = [rx EXCEPT ![p] = <<>>]
        /\ IF written
           THEN /\ th' = [Wrote(th, c, Probe) EXCEPT ![c].pc = "qs_read", ![c].k = 1]
                /\ UNCHANGED <<dev, lock>>
           ELSE StatusReturns(c, dev, FALSE)
        /\ UNCHANGED <<reg, task>>

\* the Device after frame k of the status response was parsed as v
StatusField(d, k, v) ==
    CASE k = 1 -> [d EXCEPT !.modelType = v]
      [] k = 2 -> [d EXCEPT !.firmwareVersion = v]
      [] k = 3 -> [d EXCEPT !.mechanicalAngle = v]
      [] k = 4 -> [d EXCEPT !.backlash = TruncDiv(v, 100)]
      [] OTHER ->
           LET steps == StepsFor(d.modelType, d.stepsPerDegree)
           IN  [d EXCEPT !.reverseDirection = v,
                         !.stepsPerDegree = steps,
                         !.stepsPerRevolution = steps * 360,
                         !.position = Degrees(d.mechanicalAngle)]

\* sscanf of frame k of the status response
StatusScan(k, data) ==
    CASE k = 1 -> ScanModel(data)
      [] k = 4 -> ScanFloat(data)
      [] OTHER -> ScanInt(data)

\* a faulty StatusRead: a frame that fails to parse still overwrites its field
StatusReadStoresFailed(c) ==
    LET o == th[c].dev
        p == dev[o].portName
        k == th[c].k
        r == SerialRead(rx[p], ReadBufLen)
        v == StatusScan(k, r.data)
        d == [dev EXCEPT ![o] = StatusField(@, k, v.val)]
    IN  /\ lock = c /\ th[c].pc = "qs_read"
        /\ rx' = [rx EXCEPT ![p] = r.rest]
        /\ IF Len(r.data) > 0 /\ v.ok
           THEN IF k < 5
                THEN /\ dev' = d
                     /\ th' = [th EXCEPT ![c].k = k + 1]
                     /\ lock' = lock
                ELSE StatusReturns(c, d, TRUE)
           ELSE StatusReturns(c, d, FALSE)
        /\ UNCHANGED <<reg, task>>

\* QueryStatus: frame k of the five, Read(response, 32, 'A', 3000)
StatusRead(c) ==
    LET o == th[c].dev
        p == dev[o].portName
        k == th[c].k
        r == SerialRead(rx[p], ReadBufLen)
        v == StatusScan(k, r.data)
        d == [dev EXCEPT ![o] = StatusField(@, k, v.val)]
    IN  /\ lock = c /\ th[c].pc = "qs_read"
        /\ rx' = [rx EXCEPT ![p] = r.rest]
        /\ IF Len(r.data) > 0 /\ v.ok
           THEN IF k < 5
                THEN /\ dev' = d
                     /\ th' = [th EXCEPT ![c].k = k + 1]
                     /\ lock' = lock
                ELSE StatusReturns(c, d, TRUE)
           ELSE StatusReturns(c, dev, FALSE)
        /\ UNCHANGED <<reg, task>>

\* WRRotatorScan: entry
WRRotatorScan(c) ==
    /\ CanLock(c) /\ th[c].pc = "idle"
    /\ lock' = c
    /\ th' = [Enter(c, "Scan", 0) EXCEPT ![c].pc = "scan_port", ![c].p = 1]
    /\ UNCHANGED <<reg, dev, task, rx>>

\* WRRotatorScan: the next tty of the enumeration; listed tells whether it
\* is a CH340 with a device node, opened whether port->Open succeeded
ScanPort(c, listed, opened) ==
    LET p == th[c].p IN
    /\ lock = c /\ th[c].pc = "scan_port"
    /\ IF p > NumPorts \/ th[c].count >= MaxNum
       THEN /\ th' = Ret(th, c, "WR_SUCCESS", <<th[c].count>>)
            /\ UNCHANGED <<dev, rx>>
       ELSE IF listed /\ opened
            THEN /\ FreeObjs # {}
                 /\ dev' = [dev EXCEPT ![Lowest(FreeObjs)] = NewDevice(p, TRUE)]
                 /\ rx' = [rx EXCEPT ![p] = <<>>]
                 /\ th' = [th EXCEPT ![c].pc = "hs_write", ![c].k = 1,
                                     ![c].dev = Lowest(FreeObjs)]
            ELSE /\ th' = [th EXCEPT ![c].p = p + 1]
                 /\ UNCHANGED <<dev, rx>>
    /\ UNCHANGED <<reg, task, lock>>

\* WRRotatorOpen: lookup and port->Open(portName)
WRRotatorOpen(c, id, opened) ==
    LET o == reg[id]
        p == dev[o].portName
    IN  /\ CanLock(c) /\ th[c].pc = "idle"
        /\ Registered(id)
        /\ lock' = c
        /\ dev' = [dev EXCEPT ![o].open = opened]
        /\ IF opened
           THEN /\ rx' = [rx EXCEPT ![p] = <<>>]
                /\ th' = [Enter(c, "Open", id) EXCEPT ![c].pc = "hs_write",
                                                      ![c].k = 1, ![c].dev = o]
           ELSE /\ rx' = rx
                /\ th' = Ret(Enter(c, "Open", id), c, "WR_ERROR_COMMUNICATION", <<>>)
        /\ UNCHANGED <<reg, task>>

\* SendCommand, first half: the port check before usleep(100000)
PortOpen(o) == dev[o].open

\* WRRotatorSetConfig, the backlash field: range check and port check
ConfigBacklashPart(h, c, o) ==
    IF ~Bit(h[c].mask, 2) THEN Ret(h, c, "WR_SUCCESS", <<>>)
    ELSE IF h[c].bl < 0 THEN Ret(h, c, "WR_ERROR_INVALID_PARAMETER", <<>>)
    ELSE IF ~PortOpen(o) THEN Ret(h, c, "WR_ERROR_COMMUNICATION", <<>>)
    ELSE At(h, c, "sc_bl")

\* WRRotatorSetConfig: entry
WRRotatorSetConfig(c, id, mask, rev, bl) ==
    LET o == reg[id]
        h == [Enter(c, "SetConfig", id) EXCEPT ![c].mask = mask, ![c].rev = rev,
                                               ![c].bl = bl, ![c].dev = o]
    IN  /\ CanLock(c) /\ th[c].pc = "idle"
        /\ Registered(id)
        /\ lock' = c
        /\ th' = IF Bit(mask, 1)
                 THEN IF PortOpen(o) THEN At(h, c, "sc_rev")
                      ELSE Ret(h, c, "WR_ERROR_COMMUNICATION", <<>>)
                 ELSE ConfigBacklashPart(h, c, o)
        /\ UNCHANGED <<reg, dev, task, rx>>

\* WRRotatorSetConfig: the reverse-direction command is written
ConfigReverseWrite(c, written) ==
    LET o == th[c].dev IN
    /\ lock = c /\ th[c].pc = "sc_rev"
    /\ IF written
       THEN /\ dev' = [dev EXCEPT ![o].rotatorReverse = th[c].rev,
                                  ![o].reverseDirection = th[c].rev]
            /\ th' = ConfigBacklashPart(
                         Wrote(th, c, Literal(ReverseDirectionToCommand(th[c].rev))), c, o)
       ELSE /\ th' = Ret(th, c, "WR_ERROR_COMMUNICATION", <<>>)
            /\ dev' = dev
    /\ UNCHANGED <<reg, task, lock, rx>>

\* WRRotatorSetConfig: the backlash command is written
ConfigBacklashWrite(c, written) ==
    LET o == th[c].dev IN
    /\ lock = c /\ th[c].pc = "sc_bl"
    /\ IF written
       THEN /\ dev' = [dev EXCEPT ![o].backlash = TruncDiv(th[c].bl, 100)]
            /\ th' = Ret(Wrote(th, c, Number("%d\n", BacklashToCommand(th[c].bl))),
                         c, "WR_SUCCESS", <<>>)
       ELSE /\ th' = Ret(th, c, "WR_ERROR_COMMUNICATION", <<>>)
            /\ dev' = dev
    /\ UNCHANGED <<reg, task, lock, rx>>

\* a faulty WRRotatorSyncPosition: any angle in [0, 360) is accepted
SyncPositionAnyAngle(c, id, angle) ==
    LET o == reg[id]
        h == [Enter(c, "SyncPosition", id) EXCEPT ![c].arg = angle, ![c].dev = o]
    IN  /\ CanLock(c) /\ th[c].pc = "idle"
        /\ Registered(id)
        /\ lock' = c
        /\ th' = IF ~PortOpen(o) THEN Ret(h, c, "WR_ERROR_COMMUNICATION", <<>>)
                 ELSE IF angle < 0 \/ angle >= FullTurn
                      THEN Ret(h, c, "WR_ERROR_INVALID_PARAMETER", <<>>)
                      ELSE At(h, c, "sy_write")
        /\ UNCHANGED <<reg, dev, task, rx>>

\* WRRotatorSyncPosition: entry
WRRotatorSyncPosition(c, id, angle) ==
    LET o == reg[id]
        h == [Enter(c, "SyncPosition", id) EXCEPT ![c].arg = angle, ![c].dev = o]
    IN  /\ CanLock(c) /\ th[c].pc = "idle"
        /\ Registered(id)
        /\ lock' = c
        /\ th' = IF ~PortOpen(o) THEN Ret(h, c, "WR_ERROR_COMMUNICATION", <<>>)
                 ELSE IF angle # 0 \/ angle < 0 \/ angle >= FullTurn
                      THEN Ret(h, c, "WR_ERROR_INVALID_PARAMETER", <<>>)
                      ELSE At(h, c, "sy_write")
        /\ UNCHANGED <<reg, dev, task, rx>>

\* WRRotatorSyncPosition: the sync command is written
SyncWrite(c, written) ==
    LET o == th[c].dev IN
    /\ lock = c /\ th[c].pc = "sy_write"
    /\ IF written
       THEN /\ dev' = [dev EXCEPT ![o].position = Degrees(th[c].arg)]
            /\ th' = Ret(Wrote(th, c, Literal("1500002")), c, "WR_SUCCESS", <<>>)
       ELSE /\ th' = Ret(th, c, "WR_ERROR_COMMUNICATION", <<>>)
            /\ dev' = dev
    /\ UNCHANGED <<reg, task, lock, rx>>

\* WRRotatorStopMove: entry
WRRotatorStopMove(c, id) ==
    LET o == reg[id]
        h == [Enter(c, "Stop", id) EXCEPT ![c].dev = o]
    IN  /\ CanLock(c) /\ th[c].pc = "idle"
        /\ Registered(id)
        /\ lock' = c
        /\ th' = IF PortOpen(o) THEN At(h, c, "st_write")
                 ELSE Ret(h, c, "WR_ERROR_COMMUNICATION", <<>>)
        /\ UNCHANGED <<reg, dev, task, rx>>

\* a faulty StopWrite: moving stays as it was
StopWriteKeepsMoving(c, written) ==
    LET o == th[c].dev IN
    /\ lock = c /\ th[c].pc = "st_write"
    /\ dev' = dev
    /\ th' = IF written THEN Ret(Wrote(th, c, Literal("stop")), c, "WR_SUCCESS", <<>>)
             ELSE Ret(th, c, "WR_ERROR_COMMUNICATION", <<>>)
    /\ UNCHANGED <<reg, task, lock, rx>>

\* a StopWrite that also ends the listeners of the Device
StopWriteEndsListeners(c, written) ==
    LET o == th[c].dev IN
    /\ lock = c /\ th[c].pc = "st_write"
    /\ IF written
       THEN /\ dev' = [dev EXCEPT ![o].moving = FALSE]
            /\ task' = SelectSeq(task, LAMBDA tk : tk.dev # o)
            /\ th' = Ret(Wrote(th, c, Literal("stop")), c, "WR_SUCCESS", <<>>)
       ELSE /\ th' = Ret(th, c, "WR_ERROR_COMMUNICATION", <<>>)
            /\ UNCHANGED <<dev, task>>
    /\ UNCHANGED <<reg, lock, rx>>

\* WRRotatorStopMove: the stop command is written and moving cleared
StopWrite(c, written) ==
    LET o == th[c].dev IN
    /\ lock = c /\ th[c].pc = "st_write"
    /\ IF written
       THEN /\ dev' = [dev EXCEPT ![o].moving = FALSE]
            /\ th' = Ret(Wrote(th, c, Literal("stop")), c, "WR_SUCCESS", <<>>)
       ELSE /\ th' = Ret(th, c, "WR_ERROR_COMMUNICATION", <<>>)
            /\ dev' = dev
    /\ UNCHANGED <<reg, task, lock, rx>>

\* an accepted move with overshoot compensation configured starts in
\* phase 1 (outbound sent); the listener takes it from there
OvershootArm(d, os) == IF os THEN [d EXCEPT !.overshooting = 1] ELSE d

\* WRRotatorMove under the lock: lookup, port check, targetAngle
MoveStart(c, h) ==
    LET id == h[c].id
        o == reg[id]
    IN  /\ lock' = c
        /\ IF ~Registered(id)
           THEN /\ th' = Ret(h, c, "WR_ERROR_INVALID_ID", <<>>)
                /\ dev' = dev
           ELSE IF ~PortOpen(o)
                THEN /\ th' = Ret(h, c, "WR_ERROR_COMMUNICATION", <<>>)
                     /\ dev' = dev
                ELSE /\ th' = [h EXCEPT ![c].pc = "mv_flush", ![c].dev = o]
                     /\ dev' = [dev EXCEPT ![o].targetAngle = h[c].arg]
        /\ UNCHANGED <<reg, task, rx>>

\* WRRotatorMove: entry
WRRotatorMove(c, id, angle) ==
    /\ CanLock(c) /\ th[c].pc = "idle"
    /\ Registered(id)
    /\ MoveStart(c, [Enter(c, "Move", id) EXCEPT ![c].arg = angle])

\* WRRotatorMove after usleep(50000): tcflush(TCIFLUSH), SendCommand's
\* port check
MoveFlush(c) ==
    LET o == th[c].dev IN
    /\ lock = c /\ th[c].pc = "mv_flush"
    /\ rx' = [rx EXCEPT ![dev[o].portName] = <<>>]
    /\ th' = IF PortOpen(o) THEN At(th, c, "mv_write")
             ELSE Ret(th, c, "WR_ERROR_COMMUNICATION", <<>>)
    /\ UNCHANGED <<reg, dev, task, lock>>

\* WRRotatorMove: the command is written, moving set, and
\* StartMoveListener clears listenerRunning; os tells whether overshoot
\* compensation is configured for this move
MoveWrite(c, written, os) ==
    LET o == th[c].dev IN
    /\ lock = c /\ th[c].pc = "mv_write"
    /\ IF written
       THEN /\ dev' = [dev EXCEPT ![o] = [OvershootArm(@, os) EXCEPT
                                             !.moving = TRUE, !.listenerRunning = FALSE]]
            /\ th' = At(Wrote(th, c, Number("%d", Snprintf(MoveCommand(th[c].arg, dev[o].stepsPerDegree),
                                                           MoveCmdLen))),
                        c, "mv_spawn")
       ELSE /\ th' = Ret(th, c, "WR_ERROR_COMMUNICATION", <<>>)
            /\ dev' = dev
    /\ UNCHANGED <<reg, task, lock, rx>>

\* StartMoveListener after usleep(50000): the listener thread is started
\* and detached
MoveSpawn(c) ==
    LET o == th[c].dev IN
    /\ lock = c /\ th[c].pc = "mv_spawn"
    /\ Len(task) < MaxTasks
    /\ dev' = [dev EXCEPT ![o].listenerRunning = TRUE]
    /\ task' = Spawned(task, o)
    /\ th' = Ret(th, c, "WR_SUCCESS", <<>>)
    /\ UNCHANGED <<reg, lock, rx>>

\* a faulty MoveToStart: no range check
MoveToStartUnchecked(c, op, id, angle) ==
    LET o == reg[id]
        h == [Enter(c, op, id) EXCEPT ![c].arg = angle, ![c].dev = o]
    IN  /\ CanLock(c) /\ th[c].pc = "idle"
        /\ Registered(id)
        /\ lock' = c
        /\ th' = IF ~PortOpen(o) THEN Ret(h, c, "WR_ERROR_COMMUNICATION", <<>>)
                 ELSE At(h, c, "qs_write")
        /\ UNCHANGED <<reg, dev, task, rx>>

\* WRRotatorMoveTo, first locked block: lookup, port and range checks
MoveToStart(c, op, id, angle) ==
    LET o == reg[id]
        h == [Enter(c, op, id) EXCEPT ![c].arg = angle, ![c].dev = o]
    IN  /\ CanLock(c) /\ th[c].pc = "idle"
        /\ Registered(id)
        /\ lock' = c
        /\ th' = IF ~PortOpen(o) THEN Ret(h, c, "WR_ERROR_COMMUNICATION", <<>>)
                 ELSE IF angle < 0 \/ angle >= FullTurn
                      THEN Ret(h, c, "WR_ERROR_INVALID_PARAMETER", <<>>)
                      ELSE At(h, c, "qs_write")
        /\ UNCHANGED <<reg, dev, task, rx>>

\* WRRotatorMoveTo
WRRotatorMoveTo(c, id, angle) == MoveToStart(c, "MoveTo", id, angle)

\* WRRotatorFindHome: WRRotatorMoveTo(id, 0.0f)
WRRotatorFindHome(c, id) == MoveToStart(c, "FindHome", id, 0)

\* WRRotatorMoveTo: return WRRotatorMove(id, delta)
MoveToMove(c) ==
    /\ CanLock(c) /\ th[c].pc = "mt_gap"
    /\ MoveStart(c, th)

(* --------------------------- specification --------------------------- *)

\* the null-pointer check of the calls with an output argument
NullChecks(c) ==
    \E op \in {"Scan", "GetConfig", "SetConfig", "GetStatus", "GetVersion"},
       id \in Ids : NullPointer(c, op, id)

\* scan, open, close
Lifecycle(c) ==
    \/ WRRotatorScan(c)
    \/ \E listed, opened \in BOOLEAN : ScanPort(c, listed, opened)
    \/ \E id \in Ids, opened \in BOOLEAN : WRRotatorOpen(c, id, opened)
    \/ \E written \in BOOLEAN : HandshakeWrite(c, written)
    \/ HandshakeRead(c)
    \/ \E written \in BOOLEAN : StatusWrite(c, written)
    \/ StatusRead(c)
    \/ \E id \in Ids : WRRotatorClose(c, id)
    \/ Return(c)

\* configuration, version and position sync
Config(c) ==
    \/ \E id \in Ids : WRRotatorGetConfig(c, id)
    \/ \E id \in Ids, mask \in ConfigMasks, rev \in ConfigReverse, bl \in ConfigBacklash :
          WRRotatorSetConfig(c, id, mask, rev, bl)
    \/ \E written \in BOOLEAN : ConfigReverseWrite(c, written)
    \/ \E written \in BOOLEAN : ConfigBacklashWrite(c, written)
    \/ \E id \in Ids : WRRotatorGetVersion(c, id)

\* status, position sync and stop
Status(c) ==
    \/ \E id \in Ids : WRRotatorGetStatus(c, id)
    \/ \E id \in Ids, angle \in SyncAngles : WRRotatorSyncPosition(c, id, angle)
    \/ \E written \in BOOLEAN : SyncWrite(c, written)
    \/ \E id \in Ids : WRRotatorStopMove(c, id)
    \/ \E written \in BOOLEAN : StopWrite(c, written)

\* the relative move
Move(c) ==
    \/ \E id \in Ids, angle \in MoveAngles : WRRotatorMove(c, id, angle)
    \/ MoveFlush(c)
    \/ \E written, os \in BOOLEAN : MoveWrite(c, written, os)
    \/ MoveSpawn(c)

\* the absolute move and the homing
MoveTo(c) ==
    \/ \E id \in Ids : WRRotatorFindHome(c, id)
    \/ \E id \in Ids, angle \in MoveToAngles : WRRotatorMoveTo(c, id, angle)
    \/ MoveToMove(c)

Listener(t) ==
    \/ ListenerStart(t)
    \/ ListenerReadRotated(t)
    \/ ListenerReadPosition(t)
    \/ ListenerPhase(t)
    \/ ListenerReturnFlush(t)
    \/ \E written \in BOOLEAN : ListenerReturnWrite(t, written)
    \/ ListenerReturnSpawn(t)

Environment == \E p \in Ports, f \in DeviceFrames : DeviceEmit(p, f)

\* relative moves, stop and status, with the listeners
Next ==
    \/ \E c \in Threads :
          \/ Lifecycle(c)
          \/ Status(c)
          \/ Move(c)
          \/ \E op \in LifecycleOps \cup {"GetStatus", "SyncPosition", "Stop", "Move"},
                id \in Ids : InvalidId(c, op, id)
    \/ \E t \in Tasks : Listener(t)
    \/ Environment

Spec == Init /\ [][Next]_vars

\* absolute moves among relative moves, with the listeners
NextMoveTo ==
    \/ \E c \in Threads :
          \/ Lifecycle(c)
          \/ Move(c)
          \/ MoveTo(c)
          \/ \E op \in LifecycleOps \cup {"Move", "MoveTo", "FindHome"},
                id \in Ids : InvalidId(c, op, id)
    \/ \E t \in Tasks : Listener(t)
    \/ Environment

SpecMoveTo == Init /\ [][NextMoveTo]_vars

\* configuration calls, and the argument checks of every call
NextConfig ==
    \/ \E c \in Threads :
          \/ Lifecycle(c)
          \/ Config(c)
          \/ NullChecks(c)
          \/ \E op \in HandleOps, id \in Ids : InvalidId(c, op, id)
    \/ Environment

SpecConfig == Init /\ [][NextConfig]_vars

EnvironmentCut == \E p \in Ports : DeviceEmitCut(p)

\* opening and single-phase relative moves with their listeners, on a line
\* that may deliver a frame cut short
NextCut ==
    \/ \E c \in Threads :
          \/ WRRotatorScan(c)
          \/ \E listed, opened \in BOOLEAN : ScanPort(c, listed, opened)
          \/ \E id \in Ids, opened \in BOOLEAN : WRRotatorOpen(c, id, opened)
          \/ \E written \in BOOLEAN : HandshakeWrite(c, written)
          \/ HandshakeRead(c)
          \/ \E written \in BOOLEAN : StatusWrite(c, written)
          \/ StatusRead(c)
          \/ Return(c)
          \/ \E id \in Ids, angle \in MoveAngles : WRRotatorMove(c, id, angle)
          \/ MoveFlush(c)
          \/ \E written \in BOOLEAN : MoveWrite(c, written, FALSE)
          \/ MoveSpawn(c)
    \/ \E t \in Tasks :
          \/ ListenerStart(t)
          \/ ListenerReadRotated(t)
          \/ ListenerReadPosition(t)
          \/ ListenerPhase(t)
    \/ Environment
    \/ EnvironmentCut

SpecCut == Init /\ [][NextCut]_vars

EnvironmentModels == \E p \in Ports, f \in ModelFrames : DeviceEmit(p, f)

\* scan, open and version, with an instrument of any model name
NextModels ==
    \/ \E c \in Threads :
          \/ Lifecycle(c)
          \/ \E id \in Ids : WRRotatorGetVersion(c, id)
    \/ Environment
    \/ EnvironmentModels

SpecModels == Init /\ [][NextModels]_vars

\* angles in [0, 360), milli-degrees: every 30 degrees and the neighbours
\* of 0, 180 and 360
DeltaAngles == {30000 * i : i \in 0..11} \cup {500, 179500, 180500, 359500}

\* WRRotatorMoveTo(0, target) at the last frame of its status query, on an
\* opened Lite whose mechanical angle the device has just reported as
\* current
InitDelta ==
    \E target, current \in DeltaAngles :
        /\ reg = [i \in Ids |-> IF i = 0 THEN 1 ELSE NoDev]
        /\ dev = [o \in Obj |->
                    IF o = 1
                    THEN [NewDevice(1, TRUE) EXCEPT
                             !.modelType = <<"L","i","t","e">>,
                             !.firmwareVersion = 90500,
                             !.mechanicalAngle = current,
                             !.backlash = 905000,
                             !.reverseDirection = 90500,
                             !.stepsPerDegree = StepsLite,
                             !.stepsPerRevolution = StepsLite * 360,
                             !.position = Degrees(current)]
                    ELSE FreeDevice]
        /\ task = <<>>
        /\ th = [c \in Threads |->
                   IF c = 1
                   THEN [IdleThread EXCEPT !.op = "MoveTo", !.id = 0, !.pc = "qs_read",
                                           !.k = 5, !.arg = target, !.dev = 1,
                                           !.wrote = Probe]
                   ELSE IdleThread]
        /\ lock = 1
        /\ rx = [p \in Ports |-> IF p = 1 THEN AngleFrame ELSE <<>>]

\* the delta computation and the relative move it hands over to
NextDelta ==
    \E c \in Threads :
        \/ StatusRead(c)
        \/ MoveToMove(c)
        \/ Return(c)

SpecDelta == InitDelta /\ [][NextDelta]_vars

\* every call that writes a command, single-phase moves with their
\* listeners
NextClosed ==
    \/ \E c \in Threads :
          \/ Lifecycle(c)
          \/ Status(c)
          \/ MoveTo(c)
          \/ \E id \in Ids, angle \in MoveAngles : WRRotatorMove(c, id, angle)
          \/ MoveFlush(c)
          \/ \E written \in BOOLEAN : MoveWrite(c, written, FALSE)
          \/ MoveSpawn(c)
    \/ \E t \in Tasks :
          \/ ListenerStart(t)
          \/ ListenerReadRotated(t)
          \/ ListenerReadPosition(t)
          \/ ListenerPhase(t)
    \/ Environment

SpecClosed == Init /\ [][NextClosed]_vars

\* relative angles, milli-degrees: whole and fractional, either sign, and
\* turns beyond what the command's seven digits hold
EncodeAngles == {45000, -45000, 500, -500, 8000000, -2000000}

\* the model names the status query tells apart
EncodeModels == {<<"L","i","t","e">>, <<"M","i","n","i">>, <<"L","i","t","e"," ","V","2">>}

\* a Device as a scan and an open leave it, of any model, and no call in
\* progress
InitEncode ==
    \E model \in EncodeModels :
        /\ reg = [i \in Ids |-> IF i = 0 THEN 1 ELSE NoDev]
        /\ dev = [o \in Obj |->
                    IF o = 1
                    THEN [NewDevice(1, TRUE) EXCEPT
                             !.modelType = model,
                             !.firmwareVersion = 90500,
                             !.mechanicalAngle = 90500,
                             !.backlash = 905000,
                             !.reverseDirection = 90500,
                             !.stepsPerDegree = StepsFor(model, 0),
                             !.stepsPerRevolution = StepsFor(model, 0) * 360,
                             !.position = Degrees(90500)]
                    ELSE FreeDevice]
        /\ task = <<>>
        /\ th = [c \in Threads |-> IdleThread]
        /\ lock = NoThread
        /\ rx = [p \in Ports |-> <<>>]

\* relative moves of any angle, with their listeners
NextEncode ==
    \/ \E c \in Threads :
          \/ \E id \in Ids, angle \in EncodeAngles : WRRotatorMove(c, id, angle)
          \/ MoveFlush(c)
          \/ \E written, os \in BOOLEAN : MoveWrite(c, written, os)
          \/ MoveSpawn(c)
          \/ Return(c)
    \/ \E t \in Tasks : Listener(t)
    \/ Environment

SpecEncode == InitEncode /\ [][NextEncode]_vars

\* backlash values, milli-degrees: whole tenths of a degree and between
BacklashValues == {0, 2500, 2560, 940}

\* configuration writes and reads on an opened Device
NextBacklash ==
    \/ \E c \in Threads :
          \/ \E id \in Ids, mask \in {2, 3}, rev \in ConfigReverse, bl \in BacklashValues :
                WRRotatorSetConfig(c, id, mask, rev, bl)
          \/ \E written \in BOOLEAN : ConfigReverseWrite(c, written)
          \/ \E written \in BOOLEAN : ConfigBacklashWrite(c, written)
          \/ \E id \in Ids : WRRotatorGetConfig(c, id)
          \/ Return(c)
    \/ Environment

SpecBacklash == InitEncode /\ [][NextBacklash]_vars

\* a model frame whose name runs past the read buffer
LongModelFrame == Tag \o [i \in 1..20 |-> "x"] \o <<"A">>

\* what may be waiting on the line when a read begins: up to MaxPieces
\* frames, whole, cut short, empty or longer than the buffer
MaxPieces == 3
ReadPieces == {ModelFrame, AngleFrame, LongModelFrame, CutFrame, <<"A">>}

RECURSIVE Concat(_)
Concat(q) == IF q = <<>> THEN <<>> ELSE Head(q) \o Concat(Tail(q))

ReadLines == {Concat(q) : q \in UNION {[1..n -> ReadPieces] : n \in 0..MaxPieces}}

\* WRRotatorOpen about to read the first frame of its status query, the
\* answer so far waiting on the line
InitRead ==
    \E line \in ReadLines :
        /\ reg = [i \in Ids |-> IF i = 0 THEN 1 ELSE NoDev]
        /\ dev = [o \in Obj |-> IF o = 1 THEN NewDevice(1, TRUE) ELSE FreeDevice]
        /\ task = <<>>
        /\ th = [c \in Threads |->
                   IF c = 1
                   THEN [IdleThread EXCEPT !.op = "Open", !.id = 0, !.pc = "qs_read",
                                           !.k = 1, !.dev = 1, !.wrote = Probe]
                   ELSE IdleThread]
        /\ lock = 1
        /\ rx = [p \in Ports |-> IF p = 1 THEN line ELSE <<>>]

\* the reads of the status query
NextRead ==
    \/ \E c \in Threads :
          \/ StatusRead(c)
          \/ Return(c)
    \/ Environment

SpecRead == InitRead /\ [][NextRead]_vars

\* relative moves and closes on an opened Device, with the listeners; the
\* port is closed by WRRotatorClose only
NextMoveClose ==
    \/ \E c \in Threads :
          \/ Move(c)
          \/ \E id \in Ids : WRRotatorClose(c, id)
          \/ Return(c)
    \/ \E t \in Tasks : Listener(t)
    \/ Environment

SpecMoveClose == InitEncode /\ [][NextMoveClose]_vars

\* relative targets of either sign and of none, milli-degrees
ReturnTargets == {45000, -45000, 0}

\* relative moves to any of these targets, with their listeners
NextReturn ==
    \/ \E c \in Threads :
          \/ \E id \in Ids, angle \in ReturnTargets : WRRotatorMove(c, id, angle)
          \/ MoveFlush(c)
          \/ \E written, os \in BOOLEAN : MoveWrite(c, written, os)
          \/ MoveSpawn(c)
          \/ Return(c)
    \/ \E t \in Tasks : Listener(t)
    \/ Environment

SpecReturn == InitEncode /\ [][NextReturn]_vars

\* some listener thread takes a step: the listener threads change, and not
\* by WRRotatorMove starting one
ListenerActs ==
    /\ task' # task
    /\ ~\E c \in Threads : th[c].pc = "mv_spawn" /\ th'[c].pc # "mv_spawn"

\* the listener threads are scheduled: a detached std::thread runs, and
\* each of its blocking steps is a timed Read or a usleep. This is weak
\* fairness of the listeners' steps, WF_vars(\E t \in Tasks : Listener(t)),
\* written out: such a step is enabled exactly while a listener exists.
ListenerFair == []<>(task = <<>>) \/ []<><<ListenerActs>>_vars

\* relative moves and closes on an opened Device, the listeners scheduled
SpecMoveCloseFair == SpecMoveClose /\ ListenerFair

(* ------------------------------- claims ------------------------------ *)

\* thread c takes the step in which its call op computes its return value
Returning(c, op) == th[c].pc # "ret" /\ th'[c].pc = "ret" /\ th'[c].op = op

\* the line of Device o offers no frame a number can be read from: the port
\* is closed, nothing arrives before the timeout, or a model frame arrives
NoNumberFrame(o) ==
    \/ ~dev[o].open
    \/ FramesIn(rx[dev[o].portName]) = 0
    \/ HasAt(rx[dev[o].portName], ModelFrame, 1)

\* the line of Device o offers the angle frame, 90500
AngleFrameNext(o) == dev[o].open /\ HasAt(rx[dev[o].portName], AngleFrame, 1)

\* WRRotatorMove accepts a move on Device o: the command is written
Accepting(o) ==
    \E c \in Threads : th[c].pc = "mv_write" /\ th[c].dev = o /\ th'[c].pc = "mv_spawn"

\* a listener of Device o that has read both completion frames of the
\* return move finishes
ReturnCompleted(o) ==
    \E t \in DOMAIN task : task[t].dev = o /\ task[t].pc = "phase" /\ task' = Without(task, t)

\* a listener of Device o gives the return move up: its command is not sent
ReturnAbandoned(o) ==
    \E t \in DOMAIN task :
        task[t].dev = o /\ task[t].pc \in {"ret_flush", "ret_write"} /\ task' = Without(task, t)

\* WRRotatorStopMove writes its command to Device o
Stopping(o) ==
    \E c \in Threads : th[c].pc = "st_write" /\ th[c].dev = o /\ th'[c].code = "WR_SUCCESS"

\* C1 as stated: overshooting (the overshoot phase: 0 none, 1 outbound
\* sent, 2 returning) changes only 0/2 -> 1 when a move is accepted, 1 -> 2
\* and 2 -> 0, and while it is not 0 moving is cleared only by the listener
\* that processes the completion of the return move.
C1_OvershootSequence ==
    [][\A o \in Obj :
          dev[o].alloc /\ dev'[o].alloc =>
             /\ dev[o].overshooting # dev'[o].overshooting =>
                   \/ dev'[o].overshooting = 1 /\ Accepting(o)
                   \/ dev[o].overshooting = 1 /\ dev'[o].overshooting = 2
                   \/ dev[o].overshooting = 2 /\ dev'[o].overshooting = 0
             /\ dev[o].overshooting # 0 /\ dev[o].moving /\ ~dev'[o].moving =>
                   dev[o].overshooting = 2 /\ dev'[o].overshooting = 0 /\ ReturnCompleted(o)
      ]_vars

\* C1 amended: an accepted move sets moving; the phase goes 1 -> 2 with
\* moving unchanged, and to 0 when the completion of the return move is
\* processed or the return move is given up; while the phase is not 0,
\* moving is cleared only together with the phase going to 0, or by
\* WRRotatorStopMove.
C1_OvershootSequenceUnlessStopped ==
    [][\A o \in Obj :
          dev[o].alloc /\ dev'[o].alloc =>
             /\ Accepting(o) => dev'[o].moving
             /\ dev[o].overshooting # dev'[o].overshooting =>
                   \/ dev'[o].overshooting = 1 /\ Accepting(o)
                   \/ /\ dev[o].overshooting = 1 /\ dev'[o].overshooting = 2
                      /\ dev'[o].moving = dev[o].moving
                   \/ /\ dev'[o].overshooting = 0
                      /\ \/ dev[o].overshooting = 2 /\ ReturnCompleted(o)
                         \/ ReturnAbandoned(o)
             /\ dev[o].overshooting # 0 /\ dev[o].moving /\ ~dev'[o].moving =>
                   \/ Stopping(o) /\ dev'[o].overshooting = dev[o].overshooting
                   \/ dev'[o].overshooting = 0 /\ (ReturnCompleted(o) \/ ReturnAbandoned(o))
      ]_vars

\* C1 witness: the listener of the return move has read both completion
\* frames; the phase is 2 and moving is still set.
C1_ReturnPhaseReached ==
    \E t \in DOMAIN task :
        /\ task[t].pc = "phase" /\ ~task[t].old
        /\ dev[task[t].dev].overshooting = 2
        /\ dev[task[t].dev].moving

C4_SupersededKeepsMoving ==
    [][\A t \in Tasks :
          t \in DOMAIN task /\ task[t].old /\ Listener(t) /\ dev'[task[t].dev].alloc =>
             dev'[task[t].dev].moving = dev[task[t].dev].moving
      ]_vars

\* C5 as stated: no two calls are in progress at once.
C5_OneCallAtATime ==
    \A c1, c2 \in Threads : c1 # c2 => th[c1].pc = "idle" \/ th[c2].pc = "idle"

\* C5 amended: a call past its null-pointer check holds g_globalMutex up
\* to its return, except between the two locked blocks of WRRotatorMoveTo;
\* of two calls in progress one is in that gap.
C5_LockedExceptMoveToGap ==
    /\ \A c \in Threads :
          th[c].pc \notin {"idle", "mt_gap"} /\ th[c].code # "WR_ERROR_NULL_POINTER" =>
             lock = c
    /\ \A c1, c2 \in Threads :
          c1 # c2 => th[c1].pc \in {"idle", "mt_gap"} \/ th[c2].pc \in {"idle", "mt_gap"}

\* C5 witness: while one thread is between the two locked blocks of
\* WRRotatorMoveTo, another thread's WRRotatorMove has written its command.
C5_MoveInsideMoveTo ==
    \E c1, c2 \in Threads :
        /\ th[c1].pc = "mt_gap"
        /\ th[c2].op = "Move" /\ th[c2].pc = "mv_spawn" /\ lock = c2

\* C6 as stated: whenever WRRotatorStopMove returns for a registered
\* handle, moving is false.
C6_StopAlwaysClears ==
    [][\A c \in Threads :
          Returning(c, "Stop") /\ Registered(th'[c].id) => ~dev'[reg[th'[c].id]].moving
      ]_vars

\* C6 amended: WRRotatorStopMove returns WR_SUCCESS having written the
\* stop command and cleared moving, or WR_ERROR_COMMUNICATION having
\* written nothing and left moving as it was.
C6_StopClearsWhenSent ==
    [][\A c \in Threads :
          Returning(c, "Stop") /\ Registered(th'[c].id) =>
             \/ /\ th'[c].code = "WR_SUCCESS"
                /\ th'[c].wrote = Literal("stop")
                /\ ~dev'[reg[th'[c].id]].moving
             \/ /\ th'[c].code = "WR_ERROR_COMMUNICATION"
                /\ th'[c].wrote = NoCommand
                /\ dev'[reg[th'[c].id]].moving = dev[reg[th'[c].id]].moving
      ]_vars

\* C6 witness: WRRotatorStopMove returns WR_SUCCESS during a move; moving
\* is false.
C6_StoppedDuringMove ==
    \E c \in Threads :
        /\ th[c].op = "Stop" /\ th[c].pc = "ret" /\ th[c].code = "WR_SUCCESS"
        /\ th[c].wrote = Literal("stop")
        /\ ~dev[reg[th[c].id]].moving
        /\ \E t \in DOMAIN task : task[t].dev = reg[th[c].id]

\* C7: no step of WRRotatorStopMove ends or changes a listener, and a
\* listener that reads a well-formed new-position frame after moving was
\* cleared still stores the angle and the position.
C7_StopLeavesListener ==
    [][/\ \A c \in Threads :
             th'[c] # th[c] /\ th'[c].op = "Stop" => task' = task
       /\ \A t \in Tasks :
             /\ ListenerReadPosition(t)
             /\ ~dev[task[t].dev].moving
             /\ AngleFrameNext(task[t].dev)
             => /\ dev'[task[t].dev].mechanicalAngle = 90500
                /\ dev'[task[t].dev].position = [whole |-> 90, frac |-> 500]
      ]_vars

\* C7 witness: WRRotatorStopMove has returned WR_SUCCESS and a listener of
\* the Device is still in its timed read.
C7_ListenerOutlivesStop ==
    \E c \in Threads, t \in DOMAIN task :
        /\ th[c].op = "Stop" /\ th[c].pc = "ret" /\ th[c].code = "WR_SUCCESS"
        /\ task[t].dev = reg[th[c].id]
        /\ task[t].pc \in {"read1", "read2"}
        /\ dev[task[t].dev].open

\* a move of Device o is in flight: accepted, with its listener about to
\* start or running
InFlight(o) ==
    \/ \E t \in DOMAIN task : task[t].dev = o
    \/ \E c \in Threads : th[c].dev = o /\ th[c].pc = "mv_spawn"

\* C8 as stated: moving is true iff the overshoot phase is not 0 or a move
\* is in flight.
C8_MovingIffInMotion ==
    \A o \in Obj :
        dev[o].alloc => (dev[o].moving <=> (dev[o].overshooting # 0 \/ InFlight(o)))

\* C9 as stated: when WRRotatorClose returns WR_SUCCESS the handle is no
\* longer registered.
C9_CloseErasesHandle ==
    [][\A c \in Threads :
          Returning(c, "Close") /\ th'[c].code = "WR_SUCCESS" =>
             reg'[th'[c].id] = NoDev
      ]_vars

\* C9 amended: WRRotatorClose closes the port and clears listenerRunning
\* but keeps the handle registered; no step unregisters a handle, and
\* WR_ERROR_INVALID_ID is returned only for a handle that is not registered.
C9_CloseKeepsHandle ==
    [][/\ \A c \in Threads :
             Returning(c, "Close") /\ th'[c].code = "WR_SUCCESS" =>
                /\ reg' = reg
                /\ Registered(th'[c].id)
                /\ ~dev'[reg[th'[c].id]].open
                /\ ~dev'[reg[th'[c].id]].listenerRunning
       /\ \A i \in Ids : Registered(i) => reg'[i] # NoDev
       /\ \A c \in Threads :
             th[c].pc = "idle" /\ th'[c].code = "WR_ERROR_INVALID_ID" =>
                ~Registered(th'[c].id)
      ]_vars

\* C9 witness: WRRotatorClose has returned WR_SUCCESS on a Device that was
\* open and moving; the handle is still registered and the port closed.
C9_ClosedStillRegistered ==
    \E c \in Threads :
        /\ th[c].op = "Close" /\ th[c].pc = "ret" /\ th[c].code = "WR_SUCCESS"
        /\ Registered(th[c].id)
        /\ ~dev[reg[th[c].id]].open
        /\ dev[reg[th[c].id]].moving

\* C10: a call that takes a handle, entered with non-null arguments and a
\* handle that is not registered, returns WR_ERROR_INVALID_ID in its first
\* step, writes nothing and changes neither the registry, nor a Device,
\* nor a listener, nor a line.
C10_UnknownHandleRejected ==
    [][\A c \in Threads :
          /\ th[c].pc = "idle" /\ th'[c].pc # "idle"
          /\ th'[c].op \in HandleOps
          /\ ~Registered(th'[c].id)
          /\ th'[c].code # "WR_ERROR_NULL_POINTER"
          => /\ th'[c].pc = "ret"
             /\ th'[c].code = "WR_ERROR_INVALID_ID"
             /\ th'[c].wrote = NoCommand
             /\ UNCHANGED <<reg, dev, task, rx>>
      ]_vars

\* C10 witness: with a Device registered under another handle,
\* WRRotatorSetConfig returns WR_ERROR_INVALID_ID for an unknown handle.
C10_UnknownHandleSeen ==
    \E c \in Threads :
        /\ th[c].op = "SetConfig" /\ th[c].pc = "ret"
        /\ th[c].code = "WR_ERROR_INVALID_ID"
        /\ ~Registered(th[c].id)
        /\ \E i \in Ids : Registered(i)

\* thread c is inside QueryHandshake
InHandshake(h, c) == h[c].pc \in {"hs_write", "hs_read"}

\* the read of thread c's handshake attempt yields a frame with the tag
HandshakeAnswer(c) ==
    LET r == SerialRead(rx[dev[th[c].dev].portName], ReadBufLen)
    IN  Len(r.data) > 0 /\ Contains(r.data, Tag)

\* QueryHandshake of thread c returns true to its caller in this step
HandshakeSucceeded(c) ==
    IF th[c].op = "Scan" THEN th'[c].pc = "scan_port" /\ reg' # reg
    ELSE th'[c].pc = "qs_write"

\* QueryHandshake of thread c returns false to its caller in this step
HandshakeFailed(c) ==
    IF th[c].op = "Scan" THEN th'[c].pc = "scan_port" /\ reg' = reg
    ELSE th'[c].pc = "ret" /\ th'[c].code = "WR_ERROR_COMMUNICATION"

\* C11: the handshake starts with attempt 1; attempt k writes one probe
\* and k is at most 5; a read that yields the tag ends the handshake with
\* success at once; a read that does not is followed by attempt k + 1
\* when k < 5 and ends the handshake with failure when k = 5.  So an
\* unanswered handshake writes exactly 5 probes, and one answered first
\* at attempt k exactly k.
C11_HandshakeProbes ==
    [][\A c \in Threads :
          /\ ~InHandshake(th, c) /\ InHandshake(th', c) =>
                th'[c].pc = "hs_write" /\ th'[c].k = 1
          /\ th[c].pc = "hs_write" /\ th'[c].pc = "hs_read" =>
                /\ th[c].k \in 1..5
                /\ th'[c].k = th[c].k
                /\ th'[c].wrote = Probe
          /\ th[c].pc = "hs_read" /\ th'[c] # th[c] =>
                IF HandshakeAnswer(c) THEN HandshakeSucceeded(c)
                ELSE IF th[c].k < 5
                     THEN th'[c].pc = "hs_write" /\ th'[c].k = th[c].k + 1
                     ELSE HandshakeFailed(c)
      ]_vars

\* C11 witness: the fifth probe is written and nothing has arrived.
C11_FifthProbeUnanswered ==
    \E c \in Threads :
        /\ th[c].pc = "hs_read" /\ th[c].k = 5 /\ th[c].wrote = Probe
        /\ rx[dev[th[c].dev].portName] = <<>>

\* frame k of thread c's status query is read and parsed
StatusFrameOk(c) ==
    LET r == SerialRead(rx[dev[th[c].dev].portName], ReadBufLen)
    IN  Len(r.data) > 0 /\ StatusScan(th[c].k, r.data).ok

\* Device e is Device d with at most the field of frame k changed
FrameFieldOnly(d, e, k) ==
    CASE k = 1 -> e = [d EXCEPT !.modelType = e.modelType]
      [] k = 2 -> e = [d EXCEPT !.firmwareVersion = e.firmwareVersion]
      [] k = 3 -> e = [d EXCEPT !.mechanicalAngle = e.mechanicalAngle]
      [] k = 4 -> e = [d EXCEPT !.backlash = e.backlash]
      [] OTHER -> FALSE

\* C12: in a status query, reading frame k < 5 changes only the field of
\* frame k; a frame that is not read or not parsed ends the call with
\* WR_ERROR_COMMUNICATION and changes no field of the Device (WRRotatorOpen
\* closes the port), so the fields of the later frames, stepsPerDegree,
\* stepsPerRevolution and position are as before the query.
C12_FailedQueryKeepsLaterFields ==
    [][\A c \in Threads :
          th[c].pc = "qs_read" /\ th'[c] # th[c] =>
             LET o == th[c].dev IN
             IF StatusFrameOk(c)
             THEN th[c].k < 5 =>
                     /\ FrameFieldOnly(dev[o], dev'[o], th[c].k)
                     /\ th'[c].pc = "qs_read" /\ th'[c].k = th[c].k + 1
             ELSE /\ th'[c].pc = "ret"
                  /\ th'[c].code = "WR_ERROR_COMMUNICATION"
                  /\ dev'[o] = IF th[c].op = "Open" THEN [dev[o] EXCEPT !.open = FALSE]
                               ELSE dev[o]
      ]_vars

\* C12 witness: WRRotatorOpen has returned WR_ERROR_COMMUNICATION after
\* the query failed at frame 3: the firmware version is stored, the
\* mechanical angle and stepsPerDegree are not.
C12_FailedAtThirdFrame ==
    \E c \in Threads :
        /\ th[c].op = "Open" /\ th[c].pc = "ret"
        /\ th[c].code = "WR_ERROR_COMMUNICATION"
        /\ dev[reg[th[c].id]].firmwareVersion = 90500
        /\ dev[reg[th[c].id]].mechanicalAngle = 0
        /\ dev[reg[th[c].id]].stepsPerDegree = 0

\* the line of Device o holds the start of a frame and no terminating 'A'
CutPending(o) ==
    /\ dev[o].open
    /\ rx[dev[o].portName] # <<>>
    /\ FramesIn(rx[dev[o].portName]) = 0

\* C13 as stated: a read that ends at its timeout with the start of a
\* frame and no terminating 'A' is a failed read: the status query
\* returns WR_ERROR_COMMUNICATION, and a listener ends leaving
\* mechanicalAngle, position and moving as they were.
C13_CutFrameRejected ==
    [][/\ \A c \in Threads :
             th[c].pc = "qs_read" /\ th'[c] # th[c] /\ CutPending(th[c].dev) =>
                th'[c].pc = "ret" /\ th'[c].code = "WR_ERROR_COMMUNICATION"
       /\ \A t \in Tasks :
             /\ ListenerReadRotated(t) \/ ListenerReadPosition(t)
             /\ CutPending(task[t].dev)
             => /\ task' = Without(task, t)
                /\ dev'[task[t].dev].alloc =>
                      /\ dev'[task[t].dev].mechanicalAngle = dev[task[t].dev].mechanicalAngle
                      /\ dev'[task[t].dev].position = dev[task[t].dev].position
                      /\ dev'[task[t].dev].moving = dev[task[t].dev].moving
      ]_vars

\* C14 as stated: when WRRotatorOpen has returned WR_SUCCESS, and so its
\* status query has succeeded, stepsPerDegree of the Device is greater
\* than 0.
C14_StepsPositive ==
    \A c \in Threads :
        th[c].op = "Open" /\ th[c].pc = "ret" /\ th[c].code = "WR_SUCCESS" =>
           dev[reg[th[c].id]].stepsPerDegree > 0

\* the delta WRRotatorMoveTo of thread c computes in this step, from the
\* target it was called with and the mechanical angle just queried
DeltaComputed(c) ==
    /\ th[c].pc = "qs_read" /\ th[c].k = 5 /\ th[c].op = "MoveTo"
    /\ \/ th'[c].pc = "mt_gap"
       \/ th'[c].pc = "ret" /\ th'[c].code = "WR_SUCCESS"

\* the delta of that step: the argument of the relative move, or 0 when
\* the call returns without moving
DeltaOf(c) == IF th'[c].pc = "mt_gap" THEN th'[c].arg ELSE 0

\* C15 as stated: for target and current in [0, 360) the delta lies in
\* (-180, 180] and current + delta is congruent to target modulo 360.
C15_DeltaHalfOpenAbove ==
    [][\A c \in Threads :
          DeltaComputed(c) =>
             /\ DeltaOf(c) > -180000 /\ DeltaOf(c) <= 180000
             /\ (dev'[th[c].dev].mechanicalAngle + DeltaOf(c) - th[c].arg) % 360000 = 0
      ]_vars

\* C15 amended: for target and current in [0, 360) the delta lies in
\* [-180, 180) and current + delta is congruent to target modulo 360.
C15_DeltaHalfOpenBelow ==
    [][\A c \in Threads :
          DeltaComputed(c) =>
             /\ DeltaOf(c) >= -180000 /\ DeltaOf(c) < 180000
             /\ (dev'[th[c].dev].mechanicalAngle + DeltaOf(c) - th[c].arg) % 360000 = 0
      ]_vars

\* C15 witness: a target half a turn from the current angle; the delta
\* handed to the relative move is -180.
C15_HalfTurnIsNegative ==
    \E c \in Threads :
        /\ th[c].op = "MoveTo" /\ th[c].pc = "mt_gap"
        /\ th[c].arg = -180000
        /\ dev[reg[th[c].id]].mechanicalAngle \in {0, 180000}

\* C16: when the status query of WRRotatorMoveTo succeeds and reports a
\* mechanical angle equal to the target, the call returns WR_SUCCESS in
\* that step; the last command it has written is the status probe, so no
\* move command; moving and targetAngle are as they were and no listener
\* is started.
C16_ZeroDeltaSendsNothing ==
    [][\A c \in Threads :
          /\ th[c].pc = "qs_read" /\ th[c].k = 5 /\ th'[c] # th[c]
          /\ th[c].op \in {"MoveTo", "FindHome"}
          /\ StatusFrameOk(c)
          /\ dev'[th[c].dev].mechanicalAngle = th[c].arg
          => /\ th'[c].pc = "ret" /\ th'[c].code = "WR_SUCCESS"
             /\ th'[c].wrote = Probe
             /\ task' = task
             /\ dev'[th[c].dev].moving = dev[th[c].dev].moving
             /\ dev'[th[c].dev].targetAngle = dev[th[c].dev].targetAngle
      ]_vars

\* C16 witness: WRRotatorMoveTo(0, 90.5) has returned WR_SUCCESS on a
\* Device at 90.500 that was never moved: only the probe was written.
C16_AtTargetNoMove ==
    \E c \in Threads :
        /\ th[c].op = "MoveTo" /\ th[c].pc = "ret" /\ th[c].code = "WR_SUCCESS"
        /\ th[c].wrote = Probe
        /\ dev[reg[th[c].id]].mechanicalAngle = 90500
        /\ ~dev[reg[th[c].id]].moving
        /\ dev[reg[th[c].id]].targetAngle = 0
        /\ task = <<>>

\* WRRotatorMoveTo(id, angle) is entered by thread c with an angle outside
\* [0, 360)
MoveToOutOfRange(c, id, angle) ==
    (angle < 0 \/ angle >= 360000) /\ WRRotatorMoveTo(c, id, angle)

\* C17 as stated: WRRotatorMoveTo on a registered handle with an angle
\* outside [0, 360) returns WR_ERROR_INVALID_PARAMETER.
C17_OutOfRangeIsInvalidParameter ==
    [][\A c \in Threads, id \in Ids, angle \in MoveToAngles :
          MoveToOutOfRange(c, id, angle) =>
             th'[c].pc = "ret" /\ th'[c].code = "WR_ERROR_INVALID_PARAMETER"
      ]_vars

\* C17 amended: WRRotatorMoveTo on a registered handle with an angle
\* outside [0, 360) returns in its first step, with
\* WR_ERROR_INVALID_PARAMETER when the port is open and with
\* WR_ERROR_COMMUNICATION when it is not; it writes nothing and changes
\* neither the registry, nor a Device, nor a listener, nor the line.
C17_OutOfRangeRejectedBeforeIO ==
    [][\A c \in Threads, id \in Ids, angle \in MoveToAngles :
          MoveToOutOfRange(c, id, angle) =>
             /\ th'[c].pc = "ret"
             /\ th'[c].code = IF dev[reg[id]].open THEN "WR_ERROR_INVALID_PARAMETER"
                              ELSE "WR_ERROR_COMMUNICATION"
             /\ th'[c].wrote = NoCommand
             /\ UNCHANGED <<reg, dev, task, rx>>
      ]_vars

\* C17 witness: WRRotatorMoveTo has returned WR_ERROR_INVALID_PARAMETER on
\* an open Device with a frame waiting on its line.
C17_InvalidParameterSeen ==
    \E c \in Threads :
        /\ th[c].op = "MoveTo" /\ th[c].pc = "ret"
        /\ th[c].code = "WR_ERROR_INVALID_PARAMETER"
        /\ dev[reg[th[c].id]].open
        /\ rx[dev[reg[th[c].id]].portName] # <<>>

\* C18 as stated: a WRRotatorSetConfig that returns
\* WR_ERROR_INVALID_PARAMETER, as it does for a negative backlash, has
\* written nothing to the port.
C18_RejectedBeforeAnyWrite ==
    \A c \in Threads :
        /\ th[c].op = "SetConfig" /\ th[c].pc = "ret"
        /\ th[c].code = "WR_ERROR_INVALID_PARAMETER"
        => th[c].wrote = NoCommand

\* C19 as stated: a WRRotatorSetConfig whose mask selects
\* MASK_ROTATOR_OVERSHOOT, alone or with MASK_ROTATOR_OVERSHOOT_ANGLE, and
\* that returns WR_SUCCESS has stored the overshoot setting: the Device is
\* not what it was before the call.
C19_OvershootMaskStored ==
    [][\A c \in Threads, id \in Ids, mask \in ConfigMasks,
          rev \in ConfigReverse, bl \in ConfigBacklash :
          /\ Bit(mask, 4)
          /\ WRRotatorSetConfig(c, id, mask, rev, bl)
          /\ th'[c].code = "WR_SUCCESS"
          => dev'[reg[id]] # dev[reg[id]]]_vars

\* C20 as stated: WRRotatorGetConfig returns the Device's current
\* calibration: the reverseDirection it hands back is the Device's
\* reverseDirection, which the last status query or WRRotatorSetConfig
\* stored, and the backlash is the Device's backlash.
C20_GetConfigIsCurrent ==
    \A c \in Threads :
        /\ th[c].op = "GetConfig" /\ th[c].pc = "ret"
        /\ th[c].code = "WR_SUCCESS"
        => /\ th[c].out[1] = dev[reg[th[c].id]].reverseDirection
           /\ th[c].out[2] = dev[reg[th[c].id]].backlash

\* C21: WRRotatorSyncPosition on an open device with an angle other than 0
\* returns WR_ERROR_INVALID_PARAMETER having written nothing and changed
\* nothing; with angle 0 it goes on to write, and a call that returns
\* WR_SUCCESS was given 0, has written the literal 1500002 and leaves
\* status.position, which WRRotatorGetStatus reports, at 0.
C21_SyncOnlyToZero ==
    [][\A c \in Threads :
          /\ \A id \in Ids, angle \in SyncAngles :
                WRRotatorSyncPosition(c, id, angle) /\ dev[reg[id]].open =>
                   IF angle # 0
                   THEN /\ th'[c].pc = "ret"
                        /\ th'[c].code = "WR_ERROR_INVALID_PARAMETER"
                        /\ th'[c].wrote = NoCommand
                        /\ dev' = dev /\ rx' = rx
                   ELSE th'[c].pc = "sy_write"
          /\ Returning(c, "SyncPosition") /\ th'[c].code = "WR_SUCCESS" =>
                /\ th[c].arg = 0
                /\ th'[c].wrote = Literal("1500002")
                /\ dev'[th[c].dev].position = Degrees(0)]_vars

\* a sync to zero has succeeded on a Device whose mechanical angle is not 0
C21_SyncedToZero ==
    \E c \in Threads :
        /\ th[c].op = "SyncPosition" /\ th[c].pc = "ret" /\ th[c].code = "WR_SUCCESS"
        /\ th[c].wrote = Literal("1500002")
        /\ dev[reg[th[c].id]].mechanicalAngle # 0
        /\ dev[reg[th[c].id]].position = Degrees(0)

\* thread c enters a call that writes a command, on handle id
CommandCall(c, id) ==
    \/ \E angle \in MoveAngles : WRRotatorMove(c, id, angle)
    \/ \E angle \in MoveToAngles : WRRotatorMoveTo(c, id, angle)
    \/ WRRotatorFindHome(c, id)
    \/ WRRotatorStopMove(c, id)
    \/ \E angle \in SyncAngles : WRRotatorSyncPosition(c, id, angle)

\* C22: the Device a scan registers has its port closed; the port of a
\* registered Device opens only in a WRRotatorOpen, is open when that call
\* returns WR_SUCCESS and closed when it returns an error, and is closed
\* when WRRotatorClose returns; WRRotatorMove, WRRotatorMoveTo,
\* WRRotatorStopMove and WRRotatorSyncPosition on a registered Device
\* whose port is closed return WR_ERROR_COMMUNICATION having written
\* nothing, left moving and every other field alone and started no
\* listener.
C22_ClosedPortRefusesCommands ==
    [][/\ \A id \in Ids :
            reg'[id] # reg[id] /\ reg'[id] # NoDev => ~dev'[reg'[id]].open
       /\ \A id \in Ids :
            /\ Registered(id) /\ reg'[id] = reg[id]
            /\ ~dev[reg[id]].open /\ dev'[reg[id]].open
            => \E c \in Threads : WRRotatorOpen(c, id, TRUE)
       /\ \A c \in Threads :
            /\ Returning(c, "Open") /\ Registered(th'[c].id) =>
                  (dev'[reg[th'[c].id]].open <=> th'[c].code = "WR_SUCCESS")
            /\ Returning(c, "Close") /\ th'[c].code = "WR_SUCCESS" =>
                  ~dev'[reg[th'[c].id]].open
            /\ \A id \in Ids :
                  CommandCall(c, id) /\ ~dev[reg[id]].open =>
                     /\ th'[c].pc = "ret"
                     /\ th'[c].code = "WR_ERROR_COMMUNICATION"
                     /\ th'[c].wrote = NoCommand
                     /\ dev' = dev /\ task' = task /\ rx' = rx]_vars

\* a move has been refused on a Device that was opened and closed again
C22_RefusedAfterClose ==
    \E c \in Threads :
        /\ th[c].op = "Move" /\ th[c].pc = "ret"
        /\ th[c].code = "WR_ERROR_COMMUNICATION" /\ th[c].wrote = NoCommand
        /\ Registered(th[c].id)
        /\ ~dev[reg[th[c].id]].open
        /\ dev[reg[th[c].id]].stepsPerDegree # 0

\* the status query of thread c returns true
StatusSucceeds(c) ==
    /\ th[c].pc = "qs_read" /\ th[c].k = 5
    /\ th'[c].pc # "qs_read" /\ th'[c].code # "WR_ERROR_COMMUNICATION"

\* C23: after a status query that succeeds stepsPerDegree is 1142 for a
\* model name containing Mini, 1199 for one containing Lite and V2, 1155
\* for one containing Lite without V2, and what it was before the query
\* for any other name; stepsPerRevolution is stepsPerDegree * 360 in every
\* state.
C23_StepsByModel ==
    [][/\ \A o \in Obj : dev'[o].stepsPerRevolution = dev'[o].stepsPerDegree * 360
       /\ \A c \in Threads : StatusSucceeds(c) =>
             LET model == dev'[th[c].dev].modelType
                 steps == dev'[th[c].dev].stepsPerDegree
             IN  /\ model = <<"M","i","n","i">> => steps = 1142
                 /\ model = <<"L","i","t","e"," ","V","2">> => steps = 1199
                 /\ model = <<"L","i","t","e">> => steps = 1155
                 /\ model = <<"P","r","o">> => steps = dev[th[c].dev].stepsPerDegree
                 /\ model \in {<<"M","i","n","i">>, <<"L","i","t","e"," ","V","2">>,
                               <<"L","i","t","e">>, <<"P","r","o">>}]_vars

\* a Device opened as a Lite V2 has been opened again answering as a Pro
C23_OtherModelKeepsSteps ==
    \E c \in Threads :
        /\ th[c].op = "Open" /\ th[c].pc = "ret" /\ th[c].code = "WR_SUCCESS"
        /\ dev[reg[th[c].id]].modelType = <<"P","r","o">>
        /\ dev[reg[th[c].id]].stepsPerDegree = 1199

\* x / d rounded to the nearest integer, halves away from zero
RoundDiv(x, d) == IF x >= 0 THEN (2 * x + d) \div (2 * d) ELSE -((2 * (-x) + d) \div (2 * d))

\* round(angle * stepsPerDegree), angle in milli-degrees
RoundedSteps(angle, stepsPerDegree) ==
    LET whole == TruncDiv(angle, 1000)
        frac == angle - 1000 * whole
    IN  whole * stepsPerDegree + RoundDiv(frac * stepsPerDegree, 1000)

\* C24 as stated: the command a WRRotatorMove has written is the decimal
\* integer 1000000 + round(angle * stepsPerDegree), and so is the command
\* of a return move, whose angle is the overshoot angle against the sign
\* of the target.
C24_MoveCommandRounded ==
    /\ \A c \in Threads :
          th[c].op = "Move" /\ th[c].pc = "mv_spawn" =>
             th[c].wrote = Number("%d", MoveBase + RoundedSteps(th[c].arg,
                                                    dev[th[c].dev].stepsPerDegree))
    /\ \A t \in DOMAIN task :
          task[t].pc = "ret_spawn" =>
             \E a \in {OvershootAngle, -OvershootAngle} :
                 task[t].wrote = Number("%d", MoveBase + RoundedSteps(a,
                                                    dev[task[t].dev].stepsPerDegree))

\* C25 as stated: the backlash command a WRRotatorSetConfig writes is
\* round(backlash * 10) + 1600000, and the backlash it stores in the Device
\* is the command value minus 1600000.
C25_BacklashCommandRounded ==
    [][\A c \in Threads :
          th[c].pc = "sc_bl" /\ th'[c].code = "WR_SUCCESS" =>
             /\ th'[c].wrote = Number("%d\n", RoundDiv(th[c].bl, 100) + BacklashBase)
             /\ dev'[th[c].dev].backlash = th'[c].wrote.num - BacklashBase]_vars

ListenerReady(o, t) ==
    /\ dev[o].listenerRunning
    /\ \E u \in DOMAIN task : u # t /\ task[u].dev = o /\ ~task[u].old

\* C27 as stated: when the command of an accepted WRRotatorMove, or of a
\* return move, has been written, the listener that waits for its
\* completion has already been started.
C27_ListenerBeforeCommand ==
    /\ \A c \in Threads :
          th[c].op = "Move" /\ th[c].pc = "mv_spawn" => ListenerReady(th[c].dev, 0)
    /\ \A t \in DOMAIN task :
          task[t].pc = "ret_spawn" => ListenerReady(task[t].dev, t)

\* WRRotatorClose has closed the port of Device o and returned
ClosedAndReturned(o) ==
    /\ dev[o].alloc /\ ~dev[o].open
    /\ \A c \in Threads : ~(th[c].op = "Close" /\ th[c].pc = "ret")

\* C28 as stated: once WRRotatorClose has returned, no listener of the
\* Device reads from the port and none changes a field of the Device.
C28_NoListenerAfterClose ==
    [][\A t \in DOMAIN task :
          ClosedAndReturned(task[t].dev) =>
             /\ ~ListenerReadRotated(t) /\ ~ListenerReadPosition(t)
             /\ Listener(t) => dev'[task[t].dev] = dev[task[t].dev]]_vars

ForegroundWriting == {"hs_write", "qs_write", "mv_write", "st_write", "sy_write",
                      "sc_rev", "sc_bl"}

\* C30 as stated: a listener is never between the flush and the write of
\* its return-move command while a foreground call on the same Device is
\* between its flush and the write of its own command.
C30_WritesExclusive ==
    \A t \in DOMAIN task, c \in Threads :
        task[t].pc = "ret_write" /\ th[c].dev = task[t].dev =>
           th[c].pc \notin ForegroundWriting

\* -1, 0 or 1 as x is negative, zero or positive
Sign(x) == IF x > 0 THEN 1 ELSE IF x < 0 THEN -1 ELSE 0

\* the steps the overshoot angle makes on Device o
OvershootSteps(o) == TruncDiv(OvershootAngle * dev[o].stepsPerDegree, 1000)

\* listener t formats its return command, or writes the one it formatted
ReturnFormatted(t) == Running(t, "ret_flush") /\ Len(task') = Len(task) /\ task'[t].pc = "ret_write"
ReturnWritten(t) == Running(t, "ret_write") /\ Len(task') = Len(task) /\ task'[t].pc = "ret_spawn"

InOpenQuery(c) ==
    th[c].op = "Open" /\ th[c].pc \in {"hs_write", "hs_read", "qs_write", "qs_read"}

\* C32: a WRRotatorOpen that fails in its handshake or in its status query
\* returns WR_ERROR_COMMUNICATION with the Device's port closed, and the
\* registry still maps the handle to the Device.
C32_FailedOpenClosesPort ==
    [][\A c \in Threads :
          InOpenQuery(c) /\ Returning(c, "Open") /\ th'[c].code # "WR_SUCCESS" =>
             /\ th'[c].code = "WR_ERROR_COMMUNICATION"
             /\ ~dev'[th[c].dev].open
             /\ dev'[th[c].dev].alloc
             /\ reg' = reg
             /\ reg'[th[c].id] = th[c].dev
      ]_vars

\* C32 witness: an open that sent its probe has returned
\* WR_ERROR_COMMUNICATION; the handle is registered and the port closed.
C32_FailedOpenReturned ==
    \E c \in Threads :
        /\ th[c].pc = "ret" /\ th[c].op = "Open" /\ th[c].code = "WR_ERROR_COMMUNICATION"
        /\ th[c].wrote = Probe
        /\ Registered(th[c].id)
        /\ ~dev[reg[th[c].id]].open

\* the order of a listener thread's steps: the port check, the two timed
\* reads, the phase test, and for the return move the flush, the write and
\* the start of the next listener
ListenerOrder ==
    {<<"start", "read1">>, <<"read1", "read2">>, <<"read2", "phase">>,
     <<"phase", "ret_flush">>, <<"ret_flush", "ret_write">>, <<"ret_write", "ret_spawn">>}

\* a step of the listener threads: WRRotatorMove starts one, or one
\* returns, or one moves on by one step, to the return move only from
\* phase 1, or one that wrote the return move starts its successor and
\* returns
ListenerStep ==
    \/ \E c \in Threads : th[c].pc = "mv_spawn" /\ task' = Spawned(task, th[c].dev)
    \/ \E t \in DOMAIN task :
          \/ task' = Without(task, t)
          \/ task[t].pc = "ret_spawn" /\ task' = Spawned(Without(task, t), task[t].dev)
          \/ /\ Len(task') = Len(task)
             /\ task' = [task EXCEPT ![t] = task'[t]]
             /\ <<task[t].pc, task'[t].pc>> \in ListenerOrder
             /\ task[t].pc = "phase" =>
                   dev[task[t].dev].overshooting = 1 /\ dev'[task[t].dev].overshooting = 2

\* some WRRotatorMove has its command accepted
MoveAccepted == \E o \in Obj : Accepting(o)

\* C33: a listener thread only moves forward through its two timed reads
\* and returns; it goes on to a return move only from phase 1, which
\* only an accepted move sets, and then starts one successor; and unless
\* moves are accepted for ever, from some time on no listener thread is
\* left, whatever the device sends.
C33_ListenersTerminate ==
    /\ [][/\ task' # task => ListenerStep
          /\ \A o \in Obj :
                dev[o].overshooting # 1 /\ dev'[o].overshooting = 1 => Accepting(o)
         ]_vars
    /\ ([]<><<MoveAccepted>>_vars \/ <>[](task = <<>>))

\* C33 witness: the listener of a return move waits in its second read with
\* nothing on the line.
C33_ReturnListenerWaiting ==
    \E t \in DOMAIN task :
        /\ task[t].pc = "read2"
        /\ dev[task[t].dev].overshooting = 2
        /\ dev[task[t].dev].open
        /\ rx[dev[task[t].dev].portName] = <<>>

\* a listener thread of Device o exists; one waits in a timed read
ListenerOf(o) == \E t \in DOMAIN task : task[t].dev = o
ListenerReading(o) == \E t \in DOMAIN task : task[t].dev = o /\ task[t].pc \in {"read1", "read2"}

\* C34: listenerRunning is set exactly while a listener thread of the
\* Device runs: set in every state where one waits in a read, clear in
\* every state where none exists.
C34_ListenerRunningIffListener ==
    \A o \in Obj :
        dev[o].alloc =>
           /\ ListenerReading(o) => dev[o].listenerRunning
           /\ ~ListenerOf(o) => ~dev[o].listenerRunning

\* WRRotatorStopMove of thread c has returned WR_SUCCESS; the thread still
\* holds the result and no other call has begun
StopReturned(c) ==
    /\ th[c].pc = "ret" /\ th[c].op = "Stop" /\ th[c].code = "WR_SUCCESS"
    /\ Registered(th[c].id)

\* C35: once WRRotatorStopMove has returned WR_SUCCESS and before any
\* other call begins, moving stays false and no listener of the Device
\* writes a move command.
C35_StoppedStaysStopped ==
    [][\A c \in Threads :
          StopReturned(c) =>
             /\ ~dev'[reg[th[c].id]].moving
             /\ \A t \in DOMAIN task :
                   task[t].dev = reg[th[c].id] => ~ReturnWritten(t)
      ]_vars

\* C36: the position WRRotatorGetStatus reports is the Device's
\* mechanicalAngle divided by 1000.
C36_PositionIsMechanicalAngle ==
    [][\A c \in Threads :
          Returning(c, "GetStatus") /\ th'[c].code = "WR_SUCCESS" =>
             th'[c].out[1] = Degrees(dev[reg[th[c].id]].mechanicalAngle)
      ]_vars

\* thread c takes a step of its WRRotatorScan
ScanStep(c) == th[c].op = "Scan" /\ lock = c /\ th'[c] # th[c]

\* the handles the registry holds
Handles(r) == {i \in Ids : r[i] # NoDev}

\* C37: no step of WRRotatorScan changes what a registered handle maps to
\* or the Device it maps to, and when the scan returns the registered
\* handles are the ids it returned, 0 .. number - 1.
C37_ScanKeepsRegistered ==
    [][\A c \in Threads :
          ScanStep(c) =>
             /\ \A i \in Handles(reg) :
                   reg'[i] = reg[i] /\ dev'[reg[i]] = dev[reg[i]]
             /\ Returning(c, "Scan") /\ th'[c].code = "WR_SUCCESS" =>
                   Handles(reg') = {i \in Ids : i < th'[c].out[1]}
      ]_vars

\* the fields a listener's completion updates
CompletionFields(d) == <<d.mechanicalAngle, d.position, d.overshooting, d.moving>>

\* C38: between a listener's store of the position and its store of moving
\* and overshooting no thread begins or goes on with a call, and
\* mechanicalAngle, position, overshooting and moving change only in a
\* step of the thread that holds g_globalMutex.
C38_CompletionAtomic ==
    [][/\ (\E t \in DOMAIN task : task[t].pc = "phase") =>
             \A c \in Threads : th[c].pc # "ret" => th'[c] = th[c]
       /\ \A o \in Obj :
             /\ dev[o].alloc /\ dev'[o].alloc
             /\ CompletionFields(dev'[o]) # CompletionFields(dev[o])
             => lock \in Threads /\ th'[lock] # th[lock]
      ]_vars

\* the status query of thread c's WRRotatorOpen takes its first read with a
\* whole frame waiting, which arrived after the query's flush
FirstStatusRead(c) ==
    /\ th[c].op = "Open" /\ th[c].pc = "qs_read" /\ th[c].k = 1
    /\ th'[c] # th[c]
    /\ FramesIn(rx[dev[th[c].dev].portName]) > 0

\* C39: when every frame on the line is a well-formed frame the device sent
\* in answer to a probe, the first read of the status query of
\* WRRotatorOpen decodes a model frame and the query goes on: no frame of
\* the handshake's answer is taken for it.
C39_StatusReadsOwnModelFrame ==
    [][\A c \in Threads :
          FirstStatusRead(c) => th'[c].pc = "qs_read" /\ th'[c].k = 2
      ]_vars

\* C40: the step in which WRRotatorSetConfig returns
\* WR_ERROR_INVALID_PARAMETER or WR_ERROR_COMMUNICATION leaves the Device's
\* reverseDirection and backlash as they were: a call that fails has stored
\* neither.
C40_FailedSetConfigStoresNothing ==
    [][\A c \in Threads :
          /\ Returning(c, "SetConfig")
          /\ th'[c].code \in {"WR_ERROR_INVALID_PARAMETER", "WR_ERROR_COMMUNICATION"}
          /\ Registered(th'[c].id)
          => /\ dev'[reg[th'[c].id]].reverseDirection = dev[reg[th'[c].id]].reverseDirection
             /\ dev'[reg[th'[c].id]].backlash = dev[reg[th'[c].id]].backlash
      ]_vars

====
